---- MODULE Spec2Model ----
\* A model of the LAS 2.0 codec of src/LAS.py: the line parser and composer,
\* the header assembly, the data decoding of LASReader.read and the rendering
\* of LASWriter.write.
\*
\* A Python str is a sequence of one-character strings; a list is a sequence;
\* an OrderedDict is a sequence of [key, val] entries in insertion order.
\* A float is a record [nan, v]: v is an integer (the model's documents hold
\* integer literals only) and nan marks numpy.nan.
EXTENDS Integers, Sequences, FiniteSets, TLC

VARIABLES
    pc,                 \* position of the modelled run
    line,               \* the `line` argument of _parseline / local of the lexer loop
    parsed,             \* result of _parseline(line, True)
    composed,           \* result of _composeline
    file,               \* the text resource: a sequence of lines without terminator
    pos,                \* file object position: index of the next line readline() returns
    headerlines,        \* local of read() / argument of _getheader
    datalines,          \* local of read()
    header,             \* LASFile.header
    headersectionnames, \* LASFile.headersectionnames
    headerlayout,       \* LASFile.headerlayout
    headercomments,     \* LASFile.headercomments
    data,               \* LASFile.data
    call,               \* the arguments of the modelled call
    headerstring,       \* result of _headertostring: the lines joined by '\n'
    datastring,         \* result of _datatostring: the lines joined by '\n'
    reparsed,           \* result of _getheader on the lines of headerstring
    returned,           \* the header correctcurvesection / correctwellsection returned
    error               \* the exception that ended the run, "" when none

vars == <<pc, line, parsed, composed, file, pos, headerlines, datalines, header,
          headersectionnames, headerlayout, headercomments, data, call,
          headerstring, datastring, reparsed, returned, error>>

-----------------------------------------------------------------------------
\* Bounds of the model.

\* longest generated header line given to _parseline
MaxLineLen == 6

\* most lines of a generated header before its data marker line
MaxHeaderLines == 4

\* most samples of a generated file
MaxSamples == 3

\* most iterations of the lexer loop followed after the end of the file
MaxEofReads == 2

\* most rows of a generated one-column image
MaxRows == 5

-----------------------------------------------------------------------------
\* Python str methods.

\* characters str.strip() removes that occur in the model's documents
Whitespace == {" ", "\n", "\t"}

RECURSIVE LStrip(_)
LStrip(s) ==
    IF s # <<>> /\ Head(s) \in Whitespace THEN LStrip(Tail(s)) ELSE s

RECURSIVE RStrip(_)
RStrip(s) ==
    IF s # <<>> /\ s[Len(s)] \in Whitespace THEN RStrip(SubSeq(s, 1, Len(s) - 1)) ELSE s

Strip(s) == RStrip(LStrip(s))

StartsWith(s, p) == Len(s) >= Len(p) /\ SubSeq(s, 1, Len(p)) = p

\* index of the first / last occurrence of character c in s, 0 when absent
IndexOf(s, c) ==
    IF \E i \in 1..Len(s) : s[i] = c
    THEN CHOOSE i \in 1..Len(s) : s[i] = c /\ \A j \in 1..(i - 1) : s[j] # c
    ELSE 0

LastIndexOf(s, c) ==
    IF \E i \in 1..Len(s) : s[i] = c
    THEN CHOOSE i \in 1..Len(s) : s[i] = c /\ \A j \in (i + 1)..Len(s) : s[j] # c
    ELSE 0

\* s.split(c, 1): one part when c does not occur, two otherwise
Split1(s, c) ==
    LET i == IndexOf(s, c)
    IN  IF i = 0 THEN <<s>> ELSE <<SubSeq(s, 1, i - 1), SubSeq(s, i + 1, Len(s))>>

\* s.rsplit(c, 1)
RSplit1(s, c) ==
    LET i == LastIndexOf(s, c)
    IN  IF i = 0 THEN <<s>> ELSE <<SubSeq(s, 1, i - 1), SubSeq(s, i + 1, Len(s))>>

Spaces(n) == [i \in 1..n |-> " "]

-----------------------------------------------------------------------------
\* LASReader: the line parser.

\* the value of a failed call: the exception's name
Raise(name) == [ok |-> FALSE, err |-> name]

\* _splitline: three unpacked splits; an unpack of one part raises ValueError.
\* r1 = line.rsplit(":", 1), r2 = rest.split(".", 1), r3 = rest.split(" ", 1)
SplitUnitData(r1, r2, r3) ==
    IF Len(r3) # 2 THEN Raise("ValueError")
    ELSE [ok |-> TRUE, mnem |-> r2[1], unit |-> r3[1], data |-> r3[2], desc |-> r1[2]]

\* a variant of SplitMnem that takes a text without period as UNIT and DATA
\* of a line with an empty mnemonic
SplitMnemOptional(r1, r2) ==
    IF Len(r2) # 2 THEN SplitUnitData(r1, <<<<>>, r2[1]>>, Split1(r2[1], " "))
    ELSE SplitUnitData(r1, r2, Split1(r2[2], " "))

SplitMnem(r1, r2) ==
    IF Len(r2) # 2 THEN Raise("ValueError")
    ELSE SplitUnitData(r1, r2, Split1(r2[2], " "))

SplitDesc(r1) ==
    IF Len(r1) # 2 THEN Raise("ValueError")
    ELSE SplitMnem(r1, Split1(r1[1], "."))

SplitLine(l) == SplitDesc(RSplit1(l, ":"))

GetLineLayout(mnem, unit, data_, desc) ==
    LET lmnem == LStrip(mnem)
        ldata == LStrip(data_)
        ldesc == LStrip(desc)
    IN  << Len(mnem) - Len(lmnem),
           Len(lmnem) - Len(RStrip(lmnem)),
           Len(data_) - Len(ldata),
           Len(ldata) - Len(RStrip(ldata)),
           Len(desc) - Len(ldesc),
           Len(ldesc) - Len(RStrip(ldesc)) >>

\* the body of _parseline after line 252; sp is the result of _splitline
ParseSplitted(sp, withlayout) ==
    IF ~sp.ok THEN sp
    ELSE [ok |-> TRUE,
          parsedline |-> [MNEM |-> Strip(sp.mnem), UNIT |-> Strip(sp.unit),
                          DATA |-> Strip(sp.data), DESC |-> Strip(sp.desc)],
          layout |-> IF withlayout
                     THEN GetLineLayout(sp.mnem, sp.unit, sp.data, sp.desc)
                     ELSE <<>>]

\* _parseline: parsedline, and the layout when withlayout (else none: <<>>)
ParseLine(l, withlayout) == ParseSplitted(SplitLine(l), withlayout)

-----------------------------------------------------------------------------
\* LASWriter: the line composer.

\* a variant of MINIMALLINELAYOUT without the space between UNIT and DATA
ZeroLayout == <<0, 0, 0, 0, 0, 0>>

MINIMALLINELAYOUT == <<0, 0, 1, 0, 0, 0>>

\* LASLINEPATTERN.format([" "*n for n in linelayout], **parsedline)
LasLinePattern(sp, pl) ==
    sp[1] \o pl.MNEM \o sp[2] \o <<".">> \o pl.UNIT \o sp[3] \o pl.DATA
          \o sp[4] \o <<":">> \o sp[5] \o pl.DESC \o sp[6]

\* _composeline: `not linelayout` holds for None and for an empty list
ComposeLine(parsedline, linelayout) ==
    LET ll == IF linelayout = <<>> THEN MINIMALLINELAYOUT ELSE linelayout
    IN  LasLinePattern([i \in 1..6 |-> Spaces(ll[i])], parsedline)

-----------------------------------------------------------------------------
\* Python containers and further str methods.

\* a dict is a function; the empty dict (and None, where the code only tests
\* `not d`) is the empty function
DictPut(d, k, v) == [x \in (DOMAIN d) \cup {k} |-> IF x = k THEN v ELSE d[x]]

\* an OrderedDict is a sequence of entries [key, val] with distinct keys
ODKeys(od) == {od[i].key : i \in 1..Len(od)}

ODGet(od, k) == od[CHOOSE i \in 1..Len(od) : od[i].key = k].val

\* a variant of ODPut that moves a present key to the end
ODPutLast(od, k, v) ==
    Append(SelectSeq(od, LAMBDA e : e.key # k), [key |-> k, val |-> v])

\* od[k] = v: a present key keeps its position, a new key goes last
ODPut(od, k, v) ==
    IF k \in ODKeys(od)
    THEN [i \in 1..Len(od) |-> IF od[i].key = k THEN [key |-> k, val |-> v] ELSE od[i]]
    ELSE Append(od, [key |-> k, val |-> v])

\* del od[k]
ODDel(od, k) == SelectSeq(od, LAMBDA e : e.key # k)

LowerLetters ==
    <<"a", "b", "c", "d", "e", "f", "g", "h", "i", "j", "k", "l", "m",
      "n", "o", "p", "q", "r", "s", "t", "u", "v", "w", "x", "y", "z">>

UpperLetters ==
    <<"A", "B", "C", "D", "E", "F", "G", "H", "I", "J", "K", "L", "M",
      "N", "O", "P", "Q", "R", "S", "T", "U", "V", "W", "X", "Y", "Z">>

\* str.upper() of one character
Upper(c) ==
    IF \E i \in 1..Len(LowerLetters) : LowerLetters[i] = c
    THEN UpperLetters[CHOOSE i \in 1..Len(LowerLetters) : LowerLetters[i] = c]
    ELSE c

\* s.split('\n')
RECURSIVE SplitLines(_)
SplitLines(s) ==
    LET i == IndexOf(s, "\n")
    IN  IF i = 0 THEN <<s>>
        ELSE <<SubSeq(s, 1, i - 1)>> \o SplitLines(SubSeq(s, i + 1, Len(s)))

\* s.split('\n')[0]
FirstLine(s) == Split1(s, "\n")[1]

\* '\n'.join(lines)
RECURSIVE JoinLines(_)
JoinLines(lines) ==
    IF lines = <<>> THEN <<>>
    ELSE IF Len(lines) = 1 THEN lines[1]
    ELSE lines[1] \o <<"\n">> \o JoinLines(Tail(lines))

Digits == <<"0", "1", "2", "3", "4", "5", "6", "7", "8", "9">>

\* str(n) for n >= 0
RECURSIVE DecStr(_)
DecStr(n) ==
    IF n < 10 THEN <<Digits[n + 1]>> ELSE DecStr(n \div 10) \o <<Digits[(n % 10) + 1]>>

\* '{:0>4}'.format(n): right-aligned, filled with zeros to width 4
ZeroFill4(n) ==
    LET t == DecStr(n)
    IN  [i \in 1..(IF Len(t) < 4 THEN 4 - Len(t) ELSE 0) |-> "0"] \o t

-----------------------------------------------------------------------------
\* LASReader._getheader.

\* the two kinds of value a header section has once _getheader returns:
\* an OrderedDict of lines, or a str (raw text, '' for a section without lines)
DictSection(items) == [kind |-> "dict", items |-> items, text |-> <<>>]
StrSection(text) == [kind |-> "str", items |-> <<>>, text |-> text]

\* a variant of Falsy for which no section counts as empty
FalsyNever(section) == FALSE

\* `not section`
Falsy(section) ==
    IF section.kind = "dict" THEN section.items = <<>> ELSE section.text = <<>>

\* one iteration of the first loop; st.cur is the key whose list currentsection
\* is ("" while currentsection is None)
ScanLine(st, l) ==
    IF l = <<>> THEN st
    ELSE IF StartsWith(LStrip(l), <<"#">>)
    THEN [st EXCEPT !.comments = DictPut(@, st.linecount, FirstLine(l)),
                    !.linecount = @ + 1]
    ELSE IF StartsWith(LStrip(l), <<"~">>)
    THEN LET sectionname == FirstLine(l)
             second == Split1(Split1(sectionname, "~")[2], "~")[1]
         IN  IF second = <<>> THEN [st EXCEPT !.ok = FALSE, !.err = "IndexError"]
             ELSE LET sectionkey == Upper(second[1])
                  IN  [st EXCEPT !.header = ODPut(@, sectionkey, <<>>),
                                 !.sectionnames = DictPut(@, sectionkey, sectionname),
                                 !.cur = sectionkey,
                                 !.linecount = @ + 1]
    ELSE IF st.cur = "" THEN [st EXCEPT !.ok = FALSE, !.err = "AttributeError"]
    ELSE [st EXCEPT !.header = ODPut(@, st.cur, Append(ODGet(@, st.cur), FirstLine(l))),
                    !.linecount = @ + 1]

RECURSIVE ScanLines(_, _)
ScanLines(st, lines) ==
    IF lines = <<>> \/ ~st.ok THEN st
    ELSE ScanLines(ScanLine(st, Head(lines)), Tail(lines))

\* a variant of NewMnem whose suffix loop runs once only
NewMnemOnce(section, old_mnem, count) ==
    IF old_mnem \in ODKeys(section) THEN old_mnem \o <<"_">> \o ZeroFill4(1)
    ELSE old_mnem

\* the while loop of lines 363-370: the first of old_mnem, old_mnem_0001,
\* old_mnem_0002, ... that is no key of section yet
RECURSIVE NewMnem(_, _, _)
NewMnem(section, old_mnem, count) ==
    LET new_mnem == IF count = 0 THEN old_mnem
                    ELSE old_mnem \o <<"_">> \o ZeroFill4(count)
    IN  IF new_mnem \in ODKeys(section) THEN NewMnem(section, old_mnem, count + 1)
        ELSE new_mnem

\* the body of the try block for one section: parse every line; p is the
\* result of _parseline for the first of the lines left, rest the lines after it
RECURSIVE ParseSection(_, _, _)
StoreLine(p, new_mnem, rest, section, sectionlayout) ==
    ParseSection(rest, ODPut(section, new_mnem, p.parsedline),
                 DictPut(sectionlayout, new_mnem, p.layout))

\* a variant of ParseSectionLine that leaves a failing line out and goes on
SkipFailingLine(p, rest, section, sectionlayout) ==
    IF ~p.ok THEN ParseSection(rest, section, sectionlayout)
    ELSE StoreLine(p, NewMnem(section, p.parsedline.MNEM, 0), rest, section,
                   sectionlayout)

\* one iteration of the loop over a section's lines: a failing _parseline
\* leaves the try block
ParseSectionLine(p, rest, section, sectionlayout) ==
    IF ~p.ok THEN [ok |-> FALSE, section |-> <<>>, sectionlayout |-> <<>>]
    ELSE StoreLine(p, NewMnem(section, p.parsedline.MNEM, 0), rest, section,
                   sectionlayout)

ParseSection(lines, section, sectionlayout) ==
    IF lines = <<>>
    THEN [ok |-> TRUE, section |-> section, sectionlayout |-> sectionlayout]
    ELSE ParseSectionLine(ParseLine(Head(lines), TRUE), Tail(lines), section,
                          sectionlayout)

\* what the second loop stores under a section's key: an OrderedDict, ''
\* or, when a line failed, the raw text; r is the outcome of the try block
SectionValue(lines, r) ==
    IF ~r.ok THEN StrSection(JoinLines(lines))
    ELSE IF r.section = <<>> THEN StrSection(<<>>)
    ELSE DictSection(r.section)

\* the header after the second loop: every key keeps its position
ParsedHeader(hdr) ==
    [i \in 1..Len(hdr) |->
        [key |-> hdr[i].key,
         val |-> SectionValue(hdr[i].val, ParseSection(hdr[i].val, <<>>, <<>>))]]

\* the layout after the second loop: an entry for every section that parsed
\* and has lines
ParsedLayout(hdr) ==
    [k \in {hdr[i].key : i \in {j \in 1..Len(hdr) :
                                  ParsedHeader(hdr)[j].val.kind = "dict"}} |->
        ParseSection(ODGet(hdr, k), <<>>, <<>>).sectionlayout]

\* st is the state after the first loop
GetHeaderParsed(st) ==
    IF ~st.ok
    THEN [ok |-> FALSE, err |-> st.err, header |-> <<>>, sectionnames |-> <<>>,
          layout |-> <<>>, comments |-> <<>>]
    ELSE [ok |-> TRUE, err |-> "", header |-> ParsedHeader(st.header),
          sectionnames |-> st.sectionnames, layout |-> ParsedLayout(st.header),
          comments |-> st.comments]

\* the locals of _getheader before the first loop
ScanStart ==
    [ok |-> TRUE, err |-> "", header |-> <<>>, sectionnames |-> <<>>,
     comments |-> <<>>, cur |-> "", linecount |-> 0]

\* _getheader(headerlines, True, True, True)
GetHeader(lines) == GetHeaderParsed(ScanLines(ScanStart, lines))

-----------------------------------------------------------------------------
\* LASWriter._headertostring.

\* the while loop replaying the comments recorded for the next output index
RECURSIVE ReplayComments(_, _)
ReplayComments(lines, comments) ==
    IF Len(lines) \in DOMAIN comments
    THEN ReplayComments(Append(lines, comments[Len(lines)]), comments)
    ELSE lines

\* {}.fromkeys(section): every key (every character of a str) mapped to None
FromKeys(section) ==
    IF section.kind = "dict" THEN [k \in ODKeys(section.items) |-> <<>>]
    ELSE [c \in {section.text[i] : i \in 1..Len(section.text)} |-> <<>>]

\* the body of a raw section, line by line
RECURSIVE RawLines(_, _, _)
RawLines(lines, raw, comments) ==
    IF raw = <<>> THEN lines
    ELSE RawLines(Append(ReplayComments(lines, comments), Head(raw)), Tail(raw), comments)

\* the body of a structured section; ok is FALSE when layout[sectionkey][key]
\* raises KeyError
RECURSIVE DictLines(_, _, _, _)
DictLines(lines, items, sectionlayout, comments) ==
    IF items = <<>> THEN [ok |-> TRUE, lines |-> lines]
    ELSE IF Head(items).key \notin DOMAIN sectionlayout
    THEN [ok |-> FALSE, lines |-> lines]
    ELSE DictLines(Append(ReplayComments(lines, comments),
                          ComposeLine(Head(items).val, sectionlayout[Head(items).key])),
                   Tail(items), sectionlayout, comments)

\* the loop over the sections; ok is FALSE when a lookup raises KeyError
RECURSIVE SectionLines(_, _, _, _, _)
SectionLines(lines, hdr, names, layout, comments) ==
    IF hdr = <<>> THEN [ok |-> TRUE, lines |-> lines]
    ELSE LET sectionkey == Head(hdr).key
             section == Head(hdr).val
             l0 == ReplayComments(lines, comments)
         IN  IF Falsy(section) THEN SectionLines(l0, Tail(hdr), names, layout, comments)
             ELSE IF sectionkey \notin DOMAIN names THEN [ok |-> FALSE, lines |-> l0]
             ELSE LET l1 == Append(l0, names[sectionkey])
                  IN  IF section.kind = "str"
                      THEN SectionLines(RawLines(l1, SplitLines(section.text), comments),
                                        Tail(hdr), names, layout, comments)
                      ELSE IF sectionkey \notin DOMAIN layout
                      THEN [ok |-> FALSE, lines |-> l1]
                      ELSE LET l2 == DictLines(l1, section.items, layout[sectionkey],
                                               comments)
                           IN  IF ~l2.ok THEN l2
                               ELSE SectionLines(l2.lines, Tail(hdr), names, layout,
                                                 comments)

\* _headertostring(header, sectionnames, layout, comments); an argument left
\* out (None) or empty is the empty function
HeaderToString(hdr, sectionnames, layout, comments) ==
    LET names == IF DOMAIN sectionnames = {}
                 THEN [k \in ODKeys(hdr) |-> <<"~", k>>]
                 ELSE sectionnames
        lay == IF DOMAIN layout = {}
               THEN [k \in ODKeys(hdr) |-> FromKeys(ODGet(hdr, k))]
               ELSE layout
        body == SectionLines(<<>>, hdr, names, lay, comments)
    IN  IF ~body.ok THEN Raise("KeyError")
        ELSE IF "A" \notin DOMAIN names THEN Raise("KeyError")
        ELSE [ok |-> TRUE, err |-> "",
              string |-> JoinLines(Append(ReplayComments(body.lines, comments),
                                          names["A"]))]

-----------------------------------------------------------------------------
\* LASWriter.getprettyheaderlayout.

DEFAULTMNEMSTYLE == [leftmargin |-> 1, rightmargin |-> 0, allign |-> "left"]
DEFAULTDATASTYLE == [leftmargin |-> 1, rightmargin |-> 1, allign |-> "left"]
DEFAULTDESCSTYLE == [leftmargin |-> 1, righmargin |-> 0, allign |-> "left"]
DEFAULTUNIFORMSECTIONS == TRUE

\* the arguments of getprettyheaderlayout when only the header is passed
DefaultStyle ==
    [MNEM |-> DEFAULTMNEMSTYLE, DATA |-> DEFAULTDATASTYLE, DESC |-> DEFAULTDESCSTYLE,
     uniformsections |-> DEFAULTUNIFORMSECTIONS]

\* style.get(k, default)
StyleGet(style, k, default) == IF k \in DOMAIN style THEN style[k] ELSE default

\* bool(style.get('allign'))
Alligned(style) == StyleGet(style, "allign", "") # ""

\* _getspaces: <<left, right>>
GetSpaces(style, spaces) ==
    IF StyleGet(style, "allign", "") = "left"
    THEN <<StyleGet(style, "leftmargin", 0), StyleGet(style, "rightmargin", 0) + spaces>>
    ELSE IF StyleGet(style, "allign", "") = "center"
    THEN <<StyleGet(style, "leftmargin", 0) + spaces \div 2,
           StyleGet(style, "rightmargin", 0) + (spaces + 1) \div 2>>
    ELSE IF StyleGet(style, "allign", "") = "right"
    THEN <<StyleGet(style, "leftmargin", 0) + spaces, StyleGet(style, "rightmargin", 0)>>
    ELSE <<StyleGet(style, "leftmargin", 0), StyleGet(style, "rightmargin", 0)>>

\* `isinstance(section, basestring) or not section` is false
IsStructured(entry) == entry.val.kind = "dict" /\ entry.val.items # <<>>

\* the sizearray of a section: the lengths of the four fields of every line
SizeArray(items) ==
    [key \in {"MNEM", "UNIT", "DATA", "DESC"} |->
        [i \in 1..Len(items) |-> Len(items[i].val[key])]]

\* usizearray: the sizearrays of all the structured sections, stacked
RECURSIVE USizeArray(_)
USizeArray(hdr) ==
    IF hdr = <<>> THEN [key \in {"MNEM", "UNIT", "DATA", "DESC"} |-> <<>>]
    ELSE IF ~IsStructured(Head(hdr)) THEN USizeArray(Tail(hdr))
    ELSE [key \in {"MNEM", "UNIT", "DATA", "DESC"} |->
            SizeArray(Head(hdr).val.items)[key] \o USizeArray(Tail(hdr))[key]]

\* np.max(a) and a + b for arrays
MaxOf(a) == CHOOSE x \in {a[i] : i \in 1..Len(a)} : \A j \in 1..Len(a) : a[j] <= x
SumArrays(a, b) == [i \in 1..Len(a) |-> a[i] + b[i]]

\* a variant of LeftPosition that leaves the DESC offset out only when DATA
\* is aligned to the left
LeftPositionDataLeft(key, sz, msz, i, style) ==
    IF key = "MNEM" THEN 0
    ELSE IF key = "DATA"
    THEN IF ~Alligned(style.DATA) THEN 0
         ELSE IF Alligned(style.MNEM) THEN MaxOf(msz.UNIT) - sz.UNIT[i]
         ELSE MaxOf(SumArrays(msz.MNEM, msz.UNIT)) - (sz.MNEM[i] + sz.UNIT[i])
    ELSE IF ~Alligned(style.DESC) \/ StyleGet(style.DATA, "allign", "") = "left" THEN 0
         ELSE IF Alligned(style.MNEM)
         THEN MaxOf(SumArrays(msz.UNIT, msz.DATA)) - (sz.UNIT[i] + sz.DATA[i])
         ELSE MaxOf(SumArrays(SumArrays(msz.MNEM, msz.UNIT), msz.DATA))
              - (sz.MNEM[i] + sz.UNIT[i] + sz.DATA[i])

\* leftposition[key][i] for the line i of a section with sizes sz, measured
\* against msz
LeftPosition(key, sz, msz, i, style) ==
    IF key = "MNEM" THEN 0
    ELSE IF key = "DATA"
    THEN IF ~Alligned(style.DATA) THEN 0
         ELSE IF Alligned(style.MNEM) THEN MaxOf(msz.UNIT) - sz.UNIT[i]
         ELSE MaxOf(SumArrays(msz.MNEM, msz.UNIT)) - (sz.MNEM[i] + sz.UNIT[i])
    ELSE IF ~Alligned(style.DESC) \/ Alligned(style.DATA) THEN 0
         ELSE IF Alligned(style.MNEM)
         THEN MaxOf(SumArrays(msz.UNIT, msz.DATA)) - (sz.UNIT[i] + sz.DATA[i])
         ELSE MaxOf(SumArrays(SumArrays(msz.MNEM, msz.UNIT), msz.DATA))
              - (sz.MNEM[i] + sz.UNIT[i] + sz.DATA[i])

\* the two entries of linelayout for one of MNEM, DATA, DESC
KeyLayout(key, sz, msz, i, style) ==
    << GetSpaces(style[key], MaxOf(msz[key]) - sz[key][i])[1]
          + LeftPosition(key, sz, msz, i, style),
       GetSpaces(style[key], MaxOf(msz[key]) - sz[key][i])[2] >>

LineLayout(sz, msz, i, style) ==
    KeyLayout("MNEM", sz, msz, i, style) \o KeyLayout("DATA", sz, msz, i, style)
        \o KeyLayout("DESC", sz, msz, i, style)

\* sectionlayout: filled line by line under line["MNEM"], a later line
\* replacing the entry of an earlier one with the same MNEM
SectionLayout(items, sz, msz, style) ==
    [m \in {items[i].val.MNEM : i \in 1..Len(items)} |->
        LineLayout(sz, msz,
                   CHOOSE i \in 1..Len(items) :
                       /\ items[i].val.MNEM = m
                       /\ \A j \in (i + 1)..Len(items) : items[j].val.MNEM # m,
                   style)]

\* getprettyheaderlayout(header, mnemstyle, datastyle, descstyle,
\* uniformsections); np.hstack of no array raises ValueError
GetPrettyHeaderLayout(hdr, style) ==
    IF \A s \in 1..Len(hdr) : ~IsStructured(hdr[s])
    THEN [ok |-> FALSE, err |-> "ValueError", layout |-> <<>>]
    ELSE [ok |-> TRUE, err |-> "",
          layout |->
              [k \in {hdr[s].key : s \in {t \in 1..Len(hdr) : IsStructured(hdr[t])}} |->
                  SectionLayout(ODGet(hdr, k).items, SizeArray(ODGet(hdr, k).items),
                                IF style.uniformsections THEN USizeArray(hdr)
                                ELSE SizeArray(ODGet(hdr, k).items),
                                style)]]

-----------------------------------------------------------------------------
\* Floats. The documents of the model hold integer literals, so a float is
\* [nan |-> FALSE, v |-> integer] or numpy.nan.

Num(v) == [nan |-> FALSE, v |-> v]
NaN == [nan |-> TRUE, v |-> 0]

\* a == b, a < b and a - b as IEEE 754 has them: nan compares unequal and
\* unordered, and propagates
FEq(a, b) == ~a.nan /\ ~b.nan /\ a.v = b.v
FLt(a, b) == ~a.nan /\ ~b.nan /\ a.v < b.v
FSub(a, b) == IF a.nan \/ b.nan THEN NaN ELSE Num(a.v - b.v)

\* the value of a string of decimal digits
RECURSIVE DigitsValue(_)
DigitsValue(t) ==
    IF t = <<>> THEN 0
    ELSE 10 * DigitsValue(SubSeq(t, 1, Len(t) - 1))
         + (CHOOSE d \in 0..9 : Digits[d + 1] = t[Len(t)])

IsDigits(t) ==
    t # <<>> /\ \A i \in 1..Len(t) : \E d \in 1..10 : Digits[d] = t[i]

\* float(t) for the literals of the model: an optional sign and decimal
\* digits, surrounding whitespace ignored; anything else raises ValueError
FloatOfStripped(t) ==
    IF t # <<>> /\ Head(t) = "-" /\ IsDigits(Tail(t))
    THEN [ok |-> TRUE, val |-> Num(0 - DigitsValue(Tail(t)))]
    ELSE IF IsDigits(t) THEN [ok |-> TRUE, val |-> Num(DigitsValue(t))]
    ELSE [ok |-> FALSE, val |-> NaN]

ParseFloat(t) == FloatOfStripped(Strip(t))

\* ' '.join(lines)
RECURSIVE JoinSpace(_)
JoinSpace(lines) ==
    IF lines = <<>> THEN <<>>
    ELSE IF Len(lines) = 1 THEN lines[1]
    ELSE lines[1] \o <<" ">> \o JoinSpace(Tail(lines))

\* length of the longest prefix of s without whitespace
RECURSIVE TokenLen(_)
TokenLen(s) ==
    IF s = <<>> \/ Head(s) \in Whitespace THEN 0 ELSE 1 + TokenLen(Tail(s))

\* s.split(): the maximal runs of non-whitespace characters; s has no
\* leading whitespace
RECURSIVE SplitStripped(_)
SplitStripped(s) ==
    IF s = <<>> THEN <<>>
    ELSE <<SubSeq(s, 1, TokenLen(s))>>
         \o SplitStripped(LStrip(SubSeq(s, TokenLen(s) + 1, Len(s))))

SplitWhitespace(s) == SplitStripped(LStrip(s))

-----------------------------------------------------------------------------
\* LASReader: the data section.

\* _getflatdata: [float(a) for a in ' '.join(datalines).split()]
FloatsOf(tokens) ==
    IF \A i \in 1..Len(tokens) : ParseFloat(tokens[i]).ok
    THEN [ok |-> TRUE, vals |-> [i \in 1..Len(tokens) |-> ParseFloat(tokens[i]).val]]
    ELSE [ok |-> FALSE, vals |-> <<>>]

GetFlatData(lines) == FloatsOf(SplitWhitespace(JoinSpace(lines)))

\* a variant of ReshapeFlatData that cuts the flat array into ncurves rows
\* without transposing
ReshapeRowMajor(flatdata, ncurves) ==
    [i \in 1..ncurves |->
        [j \in 1..(Len(flatdata) \div ncurves) |->
            flatdata[(i - 1) * (Len(flatdata) \div ncurves) + j]]]

\* _reshapeflatdata: np.reshape(flatdata, (-1, ncurves)).T, for ncurves > 0
\* dividing the length: row i (a curve) holds every ncurves-th value from i on
ReshapeFlatData(flatdata, ncurves) ==
    [i \in 1..ncurves |->
        [j \in 1..(Len(flatdata) \div ncurves) |-> flatdata[(j - 1) * ncurves + i]]]

\* a variant of ReplaceNullValues that replaces nothing
ReplaceNullNever(flatdata, nullvalue) == flatdata

\* _replacenullvalues on the flat array
ReplaceNullValues(flatdata, nullvalue) ==
    [i \in 1..Len(flatdata) |-> IF FEq(flatdata[i], nullvalue) THEN NaN ELSE flatdata[i]]

\* newdata[:, ::-1]: every row in reverse sample order
ReorderData(d) ==
    [i \in 1..Len(d) |-> [j \in 1..Len(d[i]) |-> d[i][Len(d[i]) + 1 - j]]]

\* len(section)
SectionLen(section) ==
    IF section.kind = "dict" THEN Len(section.items) ELSE Len(section.text)

NULLKey == <<"N", "U", "L", "L">>
STEPKey == <<"S", "T", "E", "P">>
WRAPKey == <<"W", "R", "A", "P">>

\* a variant of ReorderIfNegative that never reorders
ReorderNever(stepvalue, d) == [ok |-> TRUE, err |-> "", data |-> d]

\* lines 553-554
ReorderIfNegative(stepvalue, d) ==
    [ok |-> TRUE, err |-> "", data |-> IF FLt(stepvalue, Num(0)) THEN ReorderData(d) ELSE d]

NoData == [ok |-> FALSE, err |-> "", data |-> <<>>]

\* a variant of InferStep that always goes by the declared step
InferStepNever(nullvalue, stepvalue, d) == ReorderIfNegative(stepvalue, d)

\* lines 550-551: data[0][1] raises IndexError with fewer than two samples
InferStep(nullvalue, stepvalue, d) ==
    IF FEq(stepvalue, nullvalue) \/ FEq(stepvalue, Num(0))
    THEN IF Len(d[1]) < 2 THEN [NoData EXCEPT !.err = "IndexError"]
         ELSE ReorderIfNegative(FSub(d[1][2], d[1][1]), d)
    ELSE ReorderIfNegative(stepvalue, d)

\* lines 547-548: reshape raises ValueError when ncurves does not divide the size
ReplaceAndReshape(ncurves, nullvalue, stepvalue, flat) ==
    IF ncurves = 0 \/ Len(flat) % ncurves # 0 THEN [NoData EXCEPT !.err = "ValueError"]
    ELSE InferStep(nullvalue, stepvalue,
                   ReshapeFlatData(ReplaceNullValues(flat, nullvalue), ncurves))

\* lines 543-546: the three conversions to float
DecodeFloats(ncurves, nullvalue, stepvalue, flat) ==
    IF ~nullvalue.ok \/ ~stepvalue.ok \/ ~flat.ok THEN [NoData EXCEPT !.err = "ValueError"]
    ELSE ReplaceAndReshape(ncurves, nullvalue.val, stepvalue.val, flat.vals)

\* lines 542-554 of read(): h is the header _getheader returned
DecodeData(h, lines) ==
    IF "C" \notin ODKeys(h) \/ "W" \notin ODKeys(h) THEN [NoData EXCEPT !.err = "KeyError"]
    ELSE IF ODGet(h, "W").kind = "str" THEN [NoData EXCEPT !.err = "TypeError"]
    ELSE IF {NULLKey, STEPKey} \subseteq ODKeys(ODGet(h, "W").items)
    THEN DecodeFloats(SectionLen(ODGet(h, "C")),
                      ParseFloat(ODGet(ODGet(h, "W").items, NULLKey).DATA),
                      ParseFloat(ODGet(ODGet(h, "W").items, STEPKey).DATA),
                      GetFlatData(lines))
    ELSE [NoData EXCEPT !.err = "KeyError"]

\* lines 541-554 of read(): r is what _getheader returned or raised
DecodeLoaded(r, lines) ==
    IF ~r.ok THEN [NoData EXCEPT !.err = r.err] ELSE DecodeData(r.header, lines)

-----------------------------------------------------------------------------
\* The lexer: _getheaderlines and _getdatalines.

\* fileobject.readline() at position p: the line with its terminator, '' at
\* the end of the file
ReadLine(f, p) == IF p <= Len(f) THEN Append(f[p], "\n") ELSE <<>>

\* a variant of ReplaceTabs that leaves the line as it is
ReplaceTabsNever(l) == l

\* line.replace('\t', ' ')
ReplaceTabs(l) == [i \in 1..Len(l) |-> IF l[i] = "\t" THEN " " ELSE l[i]]

\* line.lstrip().startswith('~A')
IsDataMarker(l) == StartsWith(LStrip(l), <<"~", "A">>)

\* index of the first line readline() returns that is a data marker; only
\* used on a file that has one
FirstMarker(f) ==
    CHOOSE i \in 1..Len(f) :
        /\ IsDataMarker(ReadLine(f, i))
        /\ \A j \in 1..(i - 1) : ~IsDataMarker(ReadLine(f, j))

\* _getdatalines on a file that has a marker line: readlines() after it
GetDataLines(f) == [i \in 1..(Len(f) - FirstMarker(f)) |-> ReadLine(f, FirstMarker(f) + i)]

-----------------------------------------------------------------------------
\* LASWriter: the data section and write().

\* defaults of _datatostring's collumnwidth and maxprecision
DefaultColumnWidth == 10
DefaultMaxPrecision == 8

\* the digits t without the zeros at their end
RECURSIVE StripZeros(_)
StripZeros(t) ==
    IF t # <<>> /\ t[Len(t)] = "0" THEN StripZeros(SubSeq(t, 1, Len(t) - 1)) ELSE t

\* the mantissa of the exponent form for the eight digits m: the first digit
\* and, unless the others are all zeros, a period and the others without
\* the zeros at their end
Mantissa(m) ==
    IF StripZeros(Tail(DecStr(m))) = <<>> THEN <<Head(DecStr(m))>>
    ELSE <<Head(DecStr(m)), ".">> \o StripZeros(Tail(DecStr(m)))

\* n with nine digits rounded to eight, a tie going to the even neighbour
RoundToEight(n) ==
    IF n % 10 > 5 \/ (n % 10 = 5 /\ (n \div 10) % 2 = 1) THEN n \div 10 + 1
    ELSE n \div 10

\* '{:.8g}'.format(n) for an integer 0 <= n < 10^9: the digits when there
\* are at most DefaultMaxPrecision of them, the exponent form otherwise
FormatAbs(n) ==
    IF n < 100000000 THEN DecStr(n)
    ELSE IF RoundToEight(n) = 100000000 THEN <<"1", "e", "+", "0", "9">>
    ELSE Mantissa(RoundToEight(n)) \o <<"e", "+", "0", "8">>

\* '{:.8g}'.format(x) for nan and for the integers the model holds
FormatG(x) ==
    IF x.nan THEN <<"n", "a", "n">>
    ELSE IF x.v < 0 THEN <<"-">> \o FormatAbs(0 - x.v)
    ELSE FormatAbs(x.v)

\* '{:>w}' / '{:<w}': t padded with spaces to the column width, never cut
Pad(t, allign, collumnwidth) ==
    IF Len(t) >= collumnwidth THEN t
    ELSE IF allign = "left" THEN t \o Spaces(collumnwidth - Len(t))
    ELSE Spaces(collumnwidth - Len(t)) \o t

\* (pattern*n).format(*vals) for n = len(vals)
RECURSIVE FormatValues(_, _, _)
FormatValues(vals, allign, collumnwidth) ==
    IF vals = <<>> THEN <<>>
    ELSE Pad(FormatG(Head(vals)), allign, collumnwidth)
         \o FormatValues(Tail(vals), allign, collumnwidth)

\* newdata[isnan] = nullvalue
FillNullValues(d, nullvalue) ==
    [i \in 1..Len(d) |-> [j \in 1..Len(d[i]) |-> IF d[i][j].nan THEN nullvalue ELSE d[i][j]]]

\* column j of newdata: one `line` of the loops over newdata.T
Sample(d, j) == [i \in 1..Len(d) |-> d[i][j]]

\* the lines of one sample when wrap is set (lines 1040-1043)
WrappedSample(vals, allign, collumnwidth, ncolumns) ==
    <<FormatValues(<<vals[1]>>, allign, collumnwidth)>>
    \o [i \in 1..((Len(vals) - 1) \div ncolumns) |->
           FormatValues(SubSeq(vals, 2 + (i - 1) * ncolumns, 1 + i * ncolumns),
                        allign, collumnwidth)]
    \o <<FormatValues(SubSeq(vals, 2 + ((Len(vals) - 1) \div ncolumns) * ncolumns,
                             Len(vals)),
                      allign, collumnwidth)>>

RECURSIVE WrappedLines(_, _, _, _, _)
WrappedLines(d, j, allign, collumnwidth, ncolumns) ==
    IF j > Len(d[1]) THEN <<>>
    ELSE WrappedSample(Sample(d, j), allign, collumnwidth, ncolumns)
         \o WrappedLines(d, j + 1, allign, collumnwidth, ncolumns)

\* lines 1032-1050; newdata has the nulls filled in
DataLines(newdata, wrap, allign, collumnwidth) ==
    IF wrap THEN WrappedLines(newdata, 1, allign, collumnwidth, 80 \div collumnwidth)
    ELSE [j \in 1..Len(newdata[1]) |-> FormatValues(Sample(newdata, j), allign, collumnwidth)]

\* _datatostring(data, nullvalue, revertorder, wrap, allign, collumnwidth)
\* with copy=False
DataToString(d, nullvalue, revertorder, wrap, allign, collumnwidth) ==
    JoinLines(DataLines(FillNullValues(IF revertorder THEN ReorderData(d) ELSE d,
                                       nullvalue),
                        wrap, allign, collumnwidth))

\* a variant of RevertOrder that never reverts
RevertNever(stepvalue, nullvalue) == FALSE

\* a variant of RevertOrder that reverts whatever the step is
RevertAlways(stepvalue, nullvalue) == TRUE

\* line 1074
RevertOrder(stepvalue, nullvalue) == ~FEq(stepvalue, nullvalue) /\ FLt(stepvalue, Num(0))

\* line 1075: s.upper().startswith("Y")
StartsWithY(t) == t # <<>> /\ Upper(Head(t)) = "Y"

NoWrite == [ok |-> FALSE, err |-> "", headerstring |-> <<>>, datastring |-> <<>>]

\* lines 1072-1077 of write(): hs is the header string
WriteData(hs, h, d, nullvalue, stepvalue) ==
    IF "V" \notin ODKeys(h) THEN [NoWrite EXCEPT !.err = "KeyError"]
    ELSE IF ODGet(h, "V").kind = "str" THEN [NoWrite EXCEPT !.err = "TypeError"]
    ELSE IF WRAPKey \notin ODKeys(ODGet(h, "V").items)
    THEN [NoWrite EXCEPT !.err = "KeyError"]
    ELSE [ok |-> TRUE, err |-> "", headerstring |-> hs,
          datastring |-> DataToString(d, nullvalue, RevertOrder(stepvalue, nullvalue),
                                      StartsWithY(ODGet(ODGet(h, "V").items, WRAPKey).DATA),
                                      "right", DefaultColumnWidth)]

\* lines 1072-1073 of write()
WriteFloats(hs, h, d) ==
    IF "W" \notin ODKeys(h) THEN [NoWrite EXCEPT !.err = "KeyError"]
    ELSE IF ODGet(h, "W").kind = "str" THEN [NoWrite EXCEPT !.err = "TypeError"]
    ELSE IF ~({NULLKey, STEPKey} \subseteq ODKeys(ODGet(h, "W").items))
    THEN [NoWrite EXCEPT !.err = "KeyError"]
    ELSE IF ~ParseFloat(ODGet(ODGet(h, "W").items, NULLKey).DATA).ok
            \/ ~ParseFloat(ODGet(ODGet(h, "W").items, STEPKey).DATA).ok
    THEN [NoWrite EXCEPT !.err = "ValueError"]
    ELSE WriteData(hs, h, d, ParseFloat(ODGet(ODGet(h, "W").items, NULLKey).DATA).val,
                   ParseFloat(ODGet(ODGet(h, "W").items, STEPKey).DATA).val)

\* write() up to the opening of the file: hs is what _headertostring
\* returned or raised
WriteStrings(hs, h, d) ==
    IF ~hs.ok THEN [NoWrite EXCEPT !.err = hs.err] ELSE WriteFloats(hs.string, h, d)

-----------------------------------------------------------------------------
\* The line parser and composer applied to generated lines.

LineAlphabet == {" ", ".", ":", "M"}

\* Example B of the specification and the docstrings of _splitline,
\* _getlinelayout, _parseline and _composeline
ExampleB ==
    <<" ", " ", "D", "E", "P", "T", "H", ".", "M", " ", " ", " ", " ", " ", " ", " ",
      ":", " ", "M", "E", "A", "S", "U", "R", "E", "D", " ", "D", "E", "P", "T", "H",
      " ", " ">>

\* 'STRT.M 1500.0 :'
ExampleStrt ==
    <<"S", "T", "R", "T", ".", "M", " ", "1", "5", "0", "0", ".", "0", " ", ":">>

LineInputs ==
    (UNION {[1..k -> LineAlphabet] : k \in 0..MaxLineLen}) \cup {ExampleB, ExampleStrt}

NoParse == [ok |-> FALSE, err |-> ""]

NoCall == [sectionnames |-> FALSE, layout |-> FALSE, comments |-> FALSE,
           withA |-> TRUE]

NoHeader == [ok |-> FALSE, err |-> "", header |-> <<>>, sectionnames |-> <<>>,
             layout |-> <<>>, comments |-> <<>>]

InitLine ==
    /\ pc = "line"
    /\ line \in LineInputs
    /\ parsed = NoParse
    /\ composed = <<>>
    /\ file = <<>>
    /\ pos = 0
    /\ headerlines = <<>>
    /\ datalines = <<>>
    /\ header = <<>>
    /\ headersectionnames = <<>>
    /\ headerlayout = <<>>
    /\ headercomments = <<>>
    /\ data = <<>>
    /\ call = NoCall
    /\ headerstring = <<>>
    /\ datastring = <<>>
    /\ reparsed = NoHeader
    /\ returned = <<>>
    /\ error = ""

\* parsedline, layout = LASReader._parseline(line, True)
DoParseLine ==
    /\ pc = "line"
    /\ parsed' = ParseLine(line, TRUE)
    /\ pc' = IF parsed'.ok THEN "parsed" ELSE "failed"
    /\ error' = IF parsed'.ok THEN "" ELSE parsed'.err
    /\ UNCHANGED <<returned, line, composed, file, pos, headerlines, datalines, header,
                   headersectionnames, headerlayout, headercomments, data, call,
                   headerstring, datastring, reparsed>>

\* LASWriter._composeline(parsedline, layout)
DoComposeLine ==
    /\ pc = "parsed"
    /\ composed' = ComposeLine(parsed.parsedline, parsed.layout)
    /\ pc' = "composed"
    /\ UNCHANGED <<returned, line, parsed, file, pos, headerlines, datalines, header,
                   headersectionnames, headerlayout, headercomments, data, call,
                   headerstring, datastring, reparsed, returned, error>>

NextLine == DoParseLine \/ DoComposeLine

SpecLine == InitLine /\ [][NextLine]_vars

-----------------------------------------------------------------------------
\* _getheader, _headertostring and _getheader again, applied to generated
\* header lines.

\* the lines the generated headers are made of, as readline() returns them
HeaderPool ==
    { <<"~", "V", "\n">>,
      <<"~", "c", "\n">>,
      <<"M", ".", "u", " ", "1", ":", "d", "\n">>,
      <<" ", "M", " ", ".", " ", ":", "\n">>,
      <<"M", "_", "0", "0", "0", "1", ".", " ", ":", "\n">>,
      <<"x", "\n">>,
      <<"#", "c", "\n">> }

MarkerLine == <<"~", "A", "\n">>

\* what _getheaderlines returns: lines, the last of which is the marker line
HeaderDocs ==
    { body \o <<MarkerLine>> :
        body \in UNION {[1..k -> HeaderPool] : k \in 0..MaxHeaderLines} }

InitHeader ==
    /\ pc = "getheader"
    /\ headerlines \in HeaderDocs
    /\ line = <<>>
    /\ parsed = NoParse
    /\ composed = <<>>
    /\ file = <<>>
    /\ pos = 0
    /\ datalines = <<>>
    /\ header = <<>>
    /\ headersectionnames = <<>>
    /\ headerlayout = <<>>
    /\ headercomments = <<>>
    /\ data = <<>>
    /\ call = NoCall
    /\ headerstring = <<>>
    /\ datastring = <<>>
    /\ reparsed = NoHeader
    /\ returned = <<>>
    /\ error = ""

\* r is what _getheader returned or raised
StoreHeader(r) ==
    /\ header' = r.header
    /\ headersectionnames' = r.sectionnames
    /\ headerlayout' = r.layout
    /\ headercomments' = r.comments
    /\ error' = r.err

\* header, headersectionnames, headerlayout, headercomments =
\*     LASReader._getheader(headerlines, True, True, True)
DoGetHeader ==
    /\ pc = "getheader"
    /\ StoreHeader(GetHeader(headerlines))
    /\ pc' = IF error' = "" THEN "header" ELSE "failed"
    /\ UNCHANGED <<returned, line, parsed, composed, file, pos, headerlines, datalines, data,
                   call, headerstring, datastring, reparsed>>

\* the header a caller passes: the loaded one, or one it built without an
\* entry for the data section
CallHeader(c) == IF c.withA THEN header ELSE ODDel(header, "A")

\* r is what _headertostring returned or raised
StoreHeaderString(r) ==
    /\ headerstring' = IF r.ok THEN r.string ELSE <<>>
    /\ pc' = IF r.ok THEN "headerstring" ELSE "tostringfailed"
    /\ error' = r.err

\* LASWriter._headertostring(header, sectionnames, layout, comments), each of
\* the optional maps passed as loaded or left out
DoHeaderToString ==
    /\ pc = "header"
    /\ \E c \in [sectionnames : BOOLEAN, layout : BOOLEAN, comments : BOOLEAN,
                 withA : BOOLEAN] :
         /\ call' = c
         /\ StoreHeaderString(
                HeaderToString(CallHeader(c),
                               IF c.sectionnames THEN headersectionnames ELSE <<>>,
                               IF c.layout THEN headerlayout ELSE <<>>,
                               IF c.comments THEN headercomments ELSE <<>>))
    /\ UNCHANGED <<returned, line, parsed, composed, file, pos, headerlines, datalines, header,
                   headersectionnames, headerlayout, headercomments, data,
                   datastring, reparsed>>

\* LASReader._getheader(headerstring.split('\n'), True, True, True)
DoReparse ==
    /\ pc = "headerstring"
    /\ reparsed' = GetHeader(SplitLines(headerstring))
    /\ pc' = "reparsed"
    /\ UNCHANGED <<returned, line, parsed, composed, file, pos, headerlines, datalines, header,
                   headersectionnames, headerlayout, headercomments, data, call,
                   headerstring, datastring, error>>

\* r is what getprettyheaderlayout returned or raised
StorePrettyLayout(r) ==
    /\ headerlayout' = IF r.ok THEN r.layout ELSE headerlayout
    /\ pc' = IF r.ok THEN "pretty" ELSE "prettyfailed"
    /\ error' = r.err

\* headerlayout = LASWriter.getprettyheaderlayout(header)
DoGetPrettyHeaderLayout ==
    /\ pc = "header"
    /\ StorePrettyLayout(GetPrettyHeaderLayout(header, DefaultStyle))
    /\ UNCHANGED <<returned, line, parsed, composed, file, pos, headerlines, datalines, header,
                   headersectionnames, headercomments, data, call, headerstring,
                   datastring, reparsed>>

\* r is what _headertostring returned or raised for the pretty layout
StorePrettyString(r) ==
    /\ headerstring' = IF r.ok THEN r.string ELSE <<>>
    /\ pc' = IF r.ok THEN "prettystring" ELSE "prettystringfailed"
    /\ error' = r.err

\* LASWriter._headertostring(header, layout=headerlayout). The first entry
\* of every pretty vector is an int plus an element of np.zeros, a
\* numpy.float64: " "*n in _composeline accepts it under a numpy that lets a
\* float be a repeat count and raises TypeError under one that does not
DoPrettyToString ==
    /\ pc = "pretty"
    /\ call' = [sectionnames |-> FALSE, layout |-> TRUE, comments |-> FALSE,
                withA |-> TRUE]
    /\ \E floatrepeats \in BOOLEAN :
         StorePrettyString(IF floatrepeats
                           THEN HeaderToString(header, <<>>, headerlayout, <<>>)
                           ELSE Raise("TypeError"))
    /\ UNCHANGED <<returned, line, parsed, composed, file, pos, headerlines, datalines, header,
                   headersectionnames, headerlayout, headercomments, data,
                   datastring, reparsed>>

NextHeader ==
    \/ DoGetHeader
    \/ DoHeaderToString
    \/ DoReparse
    \/ DoGetPrettyHeaderLayout
    \/ DoPrettyToString

SpecHeader == InitHeader /\ [][NextHeader]_vars

-----------------------------------------------------------------------------
\* LASWriter.correctcurvesection and correctwellsection. The sections of a
\* header are objects: a header is modelled as its entries [key, val] with
\* val a reference into a heap of sections, so that header.copy(), a shallow
\* copy, gives a second OrderedDict holding the same sections.

\* the entries of header h, each holding the reference of its section, and
\* the heap of the sections
TopOf(h) == [i \in 1..Len(h) |-> [key |-> h[i].key, val |-> i]]
HeapOf(h) == [i \in 1..Len(h) |-> h[i].val]

\* the header an OrderedDict of references stands for
Deref(top, heap) ==
    [i \in 1..Len(top) |-> [key |-> top[i].key, val |-> heap[top[i].val]]]

\* `hdr = header.copy()` or `hdr = header`: st.header is the caller's
\* OrderedDict, st.hdr the local one, alias tells whether they are one object
CopyHeader(h, copy) ==
    [ok |-> TRUE, err |-> "", header |-> TopOf(h), hdr |-> TopOf(h),
     heap |-> HeapOf(h), alias |-> ~copy]

\* an exception ends the call; what was changed before stays changed
Fail(st, name) == [st EXCEPT !.ok = FALSE, !.err = name]

\* del hdr[key]
DelSection(st, key) ==
    [st EXCEPT !.hdr = ODDel(@, key),
               !.header = IF st.alias THEN ODDel(@, key) ELSE @]

\* [key for key in hdr if key not in mnems]
RECURSIVE ToRemove(_, _)
ToRemove(top, mnems) ==
    IF top = <<>> THEN <<>>
    ELSE IF \E i \in 1..Len(mnems) : mnems[i] = <<Head(top).key>>
    THEN ToRemove(Tail(top), mnems)
    ELSE <<Head(top).key>> \o ToRemove(Tail(top), mnems)

RECURSIVE DelSections(_, _)
DelSections(st, toremove) ==
    IF toremove = <<>> THEN st
    ELSE DelSections(DelSection(st, Head(toremove)), Tail(toremove))

\* zip(mnems, units)
Zip(mnems, units) ==
    [i \in 1..(IF Len(mnems) < Len(units) THEN Len(mnems) ELSE Len(units)) |->
        [name |-> mnems[i], unit |-> units[i]]]

NewCurve(name, unit) == [MNEM |-> name, UNIT |-> unit, DATA |-> <<>>, DESC |-> <<>>]

\* the body of the loop of lines 901-905 on the section with reference ref:
\* a str supports neither hdr["C"][name]["UNIT"] = unit nor hdr["C"][name] = ...
KeepCurve(st, ref, name, unit) ==
    IF st.heap[ref].kind = "str" THEN Fail(st, "TypeError")
    ELSE IF name \in ODKeys(st.heap[ref].items)
    THEN [st EXCEPT !.heap[ref].items =
            Append(ODDel(@, name),
                   [key |-> name, val |-> [ODGet(@, name) EXCEPT !.UNIT = unit]])]
    ELSE [st EXCEPT !.heap[ref].items = ODPut(@, name, NewCurve(name, unit))]

\* the loop of lines 901-905; hdr["C"] raises KeyError without such a key
RECURSIVE KeepCurves(_, _)
KeepCurves(st, pairs) ==
    IF pairs = <<>> \/ ~st.ok THEN st
    ELSE IF "C" \notin ODKeys(st.hdr) THEN Fail(st, "KeyError")
    ELSE KeepCurves(KeepCurve(st, ODGet(st.hdr, "C"), Head(pairs).name, Head(pairs).unit),
                    Tail(pairs))

\* hdr["C"].clear(), line 907: a str has no clear
ClearCurves(st) ==
    IF "C" \notin ODKeys(st.hdr) THEN Fail(st, "KeyError")
    ELSE IF st.heap[ODGet(st.hdr, "C")].kind = "str" THEN Fail(st, "AttributeError")
    ELSE [st EXCEPT !.heap[ODGet(st.hdr, "C")].items = <<>>]

\* the loop of lines 908-909
RECURSIVE NewCurves(_, _)
NewCurves(st, pairs) ==
    IF pairs = <<>> \/ ~st.ok THEN st
    ELSE NewCurves([st EXCEPT !.heap[ODGet(st.hdr, "C")].items =
                        ODPut(@, Head(pairs).name,
                              NewCurve(Head(pairs).name, Head(pairs).unit))],
                   Tail(pairs))

\* what a call leaves: the caller's header, and the header returned (none
\* when the call raised)
CallResult(st) ==
    [ok |-> st.ok, err |-> st.err, header |-> Deref(st.header, st.heap),
     returned |-> IF st.ok THEN Deref(st.hdr, st.heap) ELSE <<>>]

\* lines 896-909; st is the state after lines 892-895
CorrectCurves(st, mnems, units, keep) ==
    IF keep
    THEN KeepCurves(DelSections(st, ToRemove(st.hdr, mnems)), Zip(mnems, units))
    ELSE NewCurves(ClearCurves(st), Zip(mnems, units))

\* correctcurvesection(header, mnems, units, keep, copy)
CorrectCurveSection(h, mnems, units, keep, copy) ==
    CallResult(CorrectCurves(CopyHeader(h, copy), mnems, units, keep))

\* hdr["W"][mnem][field] = value
SetWellField(st, mnem, field, value) ==
    IF ~st.ok THEN st
    ELSE IF "W" \notin ODKeys(st.hdr) THEN Fail(st, "KeyError")
    ELSE IF st.heap[ODGet(st.hdr, "W")].kind = "str" THEN Fail(st, "TypeError")
    ELSE IF mnem \notin ODKeys(st.heap[ODGet(st.hdr, "W")].items)
    THEN Fail(st, "KeyError")
    ELSE [st EXCEPT !.heap[ODGet(st.hdr, "W")].items =
            ODPut(@, mnem, [ODGet(@, mnem) EXCEPT ![field] = value])]

\* lines 838-842: steps[0] when all the steps are equal, 0 otherwise
StepOf(depthdata) ==
    IF \A i \in 1..(Len(depthdata) - 1) :
            FEq(FSub(depthdata[i + 1], depthdata[i]), FSub(depthdata[2], depthdata[1]))
    THEN FSub(depthdata[2], depthdata[1])
    ELSE Num(0)

STRTKey == <<"S", "T", "R", "T">>
STOPKey == <<"S", "T", "O", "P">>

\* lines 843-848; for the integers of the model '{:g}' gives the digits
SetWell(st, start, stop, step, depthunit) ==
    SetWellField(
      SetWellField(
        SetWellField(
          SetWellField(
            SetWellField(
              SetWellField(st, STRTKey, "UNIT", depthunit),
              STRTKey, "DATA", FormatG(start)),
            STOPKey, "UNIT", depthunit),
          STOPKey, "DATA", FormatG(stop)),
        STEPKey, "UNIT", depthunit),
      STEPKey, "DATA", FormatG(step))

\* correctwellsection(header, depthdata, depthunit, copy); depthdata[0] and
\* steps[0] raise IndexError for fewer than two samples
CorrectWellSection(h, depthdata, depthunit, copy) ==
    IF Len(depthdata) < 2 THEN CallResult(Fail(CopyHeader(h, copy), "IndexError"))
    ELSE CallResult(SetWell(CopyHeader(h, copy), depthdata[1],
                            depthdata[Len(depthdata)], StepOf(depthdata), depthunit))

\* the header lines of the documents the corrections are applied to: a W
\* section that is complete, lacks STOP, is raw or is absent, a C section
\* with two curves, one curve, an unparsable line, no line or absent, and
\* a P section or none
WellSections ==
    { << <<"~", "W", "\n">>, <<"S", "T", "R", "T", ".", "M", " ", "1", ":", "\n">>,
         <<"S", "T", "O", "P", ".", "M", " ", "3", ":", "\n">>,
         <<"S", "T", "E", "P", ".", "M", " ", "1", ":", "\n">> >>,
      << <<"~", "W", "\n">>, <<"S", "T", "R", "T", ".", "M", " ", "1", ":", "\n">>,
         <<"S", "T", "E", "P", ".", "M", " ", "1", ":", "\n">> >>,
      << <<"~", "W", "\n">>, <<"x", "\n">> >>,
      <<>> }

CurveSections ==
    { << <<"~", "C", "\n">>, <<"D", ".", "M", " ", ":", "d", "\n">>,
         <<"G", ".", " ", "1", ":", "\n">> >>,
      << <<"~", "C", "\n">>, <<"D", ".", "M", " ", ":", "d", "\n">> >>,
      << <<"~", "C", "\n">>, <<"x", "\n">> >>,
      << <<"~", "C", "\n">> >>,
      <<>> }

ParameterSections ==
    { << <<"~", "P", "\n">>, <<"K", ".", " ", "1", ":", "\n">> >>, <<>> }

CorrectDocs ==
    { w \o c \o q \o <<MarkerLine>> :
        w \in WellSections, c \in CurveSections, q \in ParameterSections }

\* the curve names passed, each with the unit 'u'
CurveNames ==
    { <<>>, << <<"D">> >>, << <<"G">>, <<"D">> >>, << <<"D">>, <<"N">> >>,
      << <<"C">>, <<"D">> >> }

UnitsFor(mnems) == [i \in 1..Len(mnems) |-> <<"u">>]

\* the depth columns passed: regular, irregular, descending, a single sample
DepthDatas ==
    { <<Num(1), Num(2), Num(3)>>, <<Num(1), Num(3), Num(4)>>, <<Num(3), Num(2)>>,
      <<Num(1)>> }

InitCorrect ==
    /\ pc = "getheader"
    /\ headerlines \in CorrectDocs
    /\ line = <<>>
    /\ parsed = NoParse
    /\ composed = <<>>
    /\ file = <<>>
    /\ pos = 0
    /\ datalines = <<>>
    /\ header = <<>>
    /\ headersectionnames = <<>>
    /\ headerlayout = <<>>
    /\ headercomments = <<>>
    /\ data = <<>>
    /\ call = NoCall
    /\ headerstring = <<>>
    /\ datastring = <<>>
    /\ reparsed = NoHeader
    /\ returned = <<>>
    /\ error = ""

\* r is what the call left; the sections of header are changed in place
StoreCorrected(r, done, failed) ==
    /\ header' = r.header
    /\ returned' = r.returned
    /\ error' = r.err
    /\ pc' = IF r.ok THEN done ELSE failed

\* returned = LASWriter.correctcurvesection(header, mnems, units, keep, copy)
DoCorrectCurveSection ==
    /\ pc = "header"
    /\ \E mnems \in CurveNames, keep \in BOOLEAN, copy \in BOOLEAN :
        /\ call' = [fn |-> "correctcurvesection", mnems |-> mnems,
                    units |-> UnitsFor(mnems), keep |-> keep, copy |-> copy]
        /\ StoreCorrected(CorrectCurveSection(header, mnems, UnitsFor(mnems), keep, copy),
                          "curvescorrected", "curvesfailed")
    /\ UNCHANGED <<line, parsed, composed, file, pos, headerlines, datalines,
                   headersectionnames, headerlayout, headercomments, data,
                   headerstring, datastring, reparsed>>

\* returned = LASWriter.correctwellsection(header, depthdata, depthunit, copy)
DoCorrectWellSection ==
    /\ pc = "header"
    /\ \E depthdata \in DepthDatas, copy \in BOOLEAN :
        /\ call' = [fn |-> "correctwellsection", depthdata |-> depthdata,
                    depthunit |-> <<"F">>, copy |-> copy]
        /\ StoreCorrected(CorrectWellSection(header, depthdata, <<"F">>, copy),
                          "wellcorrected", "wellfailed")
    /\ UNCHANGED <<line, parsed, composed, file, pos, headerlines, datalines,
                   headersectionnames, headerlayout, headercomments, data,
                   headerstring, datastring, reparsed>>

\* LASWriter._headertostring(returned, headersectionnames, headerlayout): the
\* corrected header written with the titles and the layout captured at load
DoCorrectedToString ==
    /\ pc = "curvescorrected"
    /\ headerstring' = IF HeaderToString(returned, headersectionnames, headerlayout, <<>>).ok
                       THEN HeaderToString(returned, headersectionnames, headerlayout,
                                           <<>>).string
                       ELSE <<>>
    /\ error' = HeaderToString(returned, headersectionnames, headerlayout, <<>>).err
    /\ pc' = IF HeaderToString(returned, headersectionnames, headerlayout, <<>>).ok
             THEN "correctedstring" ELSE "correctedstringfailed"
    /\ UNCHANGED <<line, parsed, composed, file, pos, headerlines, datalines, header,
                   headersectionnames, headerlayout, headercomments, data, call,
                   datastring, reparsed, returned>>

NextCorrect ==
    \/ DoGetHeader
    \/ DoCorrectCurveSection
    \/ DoCorrectWellSection
    \/ DoCorrectedToString

SpecCorrect == InitCorrect /\ [][NextCorrect]_vars

-----------------------------------------------------------------------------
\* getprettyheaderlayout with styles, applied to generated headers.

\* the lines of the generated sections: fields of different lengths, and a
\* second line with the mnemonic M
PrettyPool ==
    { <<"M", ".", "u", " ", "1", ":", "d", "\n">>,
      <<"M", "M", ".", " ", ":", "\n">>,
      <<"N", ".", "u", "u", " ", "1", "1", ":", "d", "d", "\n">>,
      <<"M", ".", " ", "1", "1", "1", ":", "\n">> }

\* a V section of one or two lines, then no C section, a C section of one or
\* two lines or a raw one; and a header without structured section
PrettyDocs ==
    { << <<"~", "V", "\n">> >> \o v \o c \o <<MarkerLine>> :
        v \in UNION {[1..k -> PrettyPool] : k \in 1..2},
        c \in { <<>>,
                << <<"~", "C", "\n">>, <<"M", "M", ".", " ", ":", "\n">> >>,
                << <<"~", "C", "\n">>,
                   <<"N", ".", "u", "u", " ", "1", "1", ":", "d", "d", "\n">>,
                   <<"M", ".", "u", " ", "1", ":", "d", "\n">> >>,
                << <<"~", "C", "\n">>, <<"x", "\n">> >> } }
    \cup { << <<"~", "C", "\n">>, <<"x", "\n">>, MarkerLine >> }

\* the values of 'allign' of a style; "" stands for a style without it
Alligns == {"left", "center", "right", ""}

\* the styles passed: every combination of alignments, with the margins of
\* the defaults or with other ones
PrettyStyles ==
    { [MNEM |-> [leftmargin |-> m, rightmargin |-> 0, allign |-> am],
       DATA |-> [leftmargin |-> 1, rightmargin |-> 1 - m, allign |-> ad],
       DESC |-> [leftmargin |-> 1 - m, rightmargin |-> m, allign |-> ae],
       uniformsections |-> u] :
        am \in Alligns, ad \in Alligns, ae \in Alligns, m \in {0, 1}, u \in BOOLEAN }

InitPretty ==
    /\ pc = "getheader"
    /\ headerlines \in PrettyDocs
    /\ line = <<>>
    /\ parsed = NoParse
    /\ composed = <<>>
    /\ file = <<>>
    /\ pos = 0
    /\ datalines = <<>>
    /\ header = <<>>
    /\ headersectionnames = <<>>
    /\ headerlayout = <<>>
    /\ headercomments = <<>>
    /\ data = <<>>
    /\ call = NoCall
    /\ headerstring = <<>>
    /\ datastring = <<>>
    /\ reparsed = NoHeader
    /\ returned = <<>>
    /\ error = ""

\* r is what getprettyheaderlayout returned or raised
StoreStyledLayout(r) ==
    /\ headerlayout' = IF r.ok THEN r.layout ELSE headerlayout
    /\ pc' = IF r.ok THEN "styled" ELSE "styledfailed"
    /\ error' = r.err

\* headerlayout = LASWriter.getprettyheaderlayout(header, mnemstyle,
\* datastyle, descstyle, uniformsections)
DoGetStyledLayout ==
    /\ pc = "header"
    /\ \E style \in PrettyStyles :
        /\ call' = style
        /\ StoreStyledLayout(GetPrettyHeaderLayout(header, style))
    /\ UNCHANGED <<line, parsed, composed, file, pos, headerlines, datalines, header,
                   headersectionnames, headercomments, data, headerstring,
                   datastring, reparsed, returned>>

\* r is what _headertostring returned or raised for the styled layout
StoreStyledString(r) ==
    /\ headerstring' = IF r.ok THEN r.string ELSE <<>>
    /\ pc' = IF r.ok THEN "styledstring" ELSE "styledstringfailed"
    /\ error' = r.err

\* LASWriter._headertostring(header, layout=headerlayout); the repeat counts
\* that are numpy.float64 are accepted or raise TypeError, as in
\* DoPrettyToString
DoStyledToString ==
    /\ pc = "styled"
    /\ \E floatrepeats \in BOOLEAN :
         StoreStyledString(IF floatrepeats
                           THEN HeaderToString(header, <<>>, headerlayout, <<>>)
                           ELSE Raise("TypeError"))
    /\ UNCHANGED <<line, parsed, composed, file, pos, headerlines, datalines, header,
                   headersectionnames, headerlayout, headercomments, data, call,
                   datastring, reparsed, returned>>

NextPretty == DoGetHeader \/ DoGetStyledLayout \/ DoStyledToString

SpecPretty == InitPretty /\ [][NextPretty]_vars

-----------------------------------------------------------------------------
\* _datatostring applied to generated matrices.

\* the values of the generated matrices: a short one, a missing one and one
\* whose text is longer than the default column width
DataValues == {Num(1), NaN, Num(123456789)}

\* matrices of one to four curves
DataMatrices ==
    UNION { [1..shape[1] -> [1..shape[2] -> DataValues]] :
            shape \in { <<1, 1>>, <<1, 2>>, <<2, 1>>, <<2, 2>>, <<3, 1>>, <<3, 2>>,
                        <<4, 1>> } }

InitData ==
    /\ pc = "data"
    /\ data \in DataMatrices
    /\ line = <<>>
    /\ parsed = NoParse
    /\ composed = <<>>
    /\ file = <<>>
    /\ pos = 0
    /\ headerlines = <<>>
    /\ datalines = <<>>
    /\ header = <<>>
    /\ headersectionnames = <<>>
    /\ headerlayout = <<>>
    /\ headercomments = <<>>
    /\ call = NoCall
    /\ headerstring = <<>>
    /\ datastring = <<>>
    /\ reparsed = NoHeader
    /\ returned = <<>>
    /\ error = ""

\* datastring = LASWriter._datatostring(data, nullvalue, revertorder, wrap,
\* allign, collumnwidth) with the default column width or one of 40, which
\* puts two values on a wrapped line; copy=False, so the nulls are filled
\* into data itself
DoDataToString ==
    /\ pc = "data"
    /\ \E revertorder \in BOOLEAN, wrap \in BOOLEAN, allign \in {"left", "right"},
          collumnwidth \in {DefaultColumnWidth, 40} :
        /\ call' = [nullvalue |-> Num(-9), revertorder |-> revertorder, wrap |-> wrap,
                    allign |-> allign, collumnwidth |-> collumnwidth]
        /\ datastring' = DataToString(data, Num(-9), revertorder, wrap, allign,
                                      collumnwidth)
    /\ data' = FillNullValues(data, Num(-9))
    /\ pc' = "datastring"
    /\ UNCHANGED <<line, parsed, composed, file, pos, headerlines, datalines, header,
                   headersectionnames, headerlayout, headercomments, headerstring,
                   reparsed, returned, error>>

NextData == DoDataToString

SpecData == InitData /\ [][NextData]_vars

-----------------------------------------------------------------------------
\* read() and write() applied to generated files.

\* text of an integer literal
NumText(v) == IF v < 0 THEN <<"-">> \o DecStr(0 - v) ELSE DecStr(v)

\* the declared NULL of the generated files, the values of their index
\* column, and the STEP and WRAP values they declare
NullText == <<"-", "9">>
IndexTexts == {<<"1">>, <<"2">>, <<"3">>, NullText}
StepTexts == {<<"-", "1">>, <<"0">>, <<"1">>, NullText}
WrapTexts == {<<"N", "O">>, <<"Y", "E", "S">>}

\* '~V' and 'WRAP. <wrap>:'
VLines(wrap) == << <<"~", "V">>, <<"W", "R", "A", "P", ".", " ">> \o wrap \o <<":">> >>

\* '~W', 'STEP.M <step>:' and 'NULL. -9:'
WLines(step) ==
    << <<"~", "W">>,
       <<"S", "T", "E", "P", ".", "M", " ">> \o step \o <<":">>,
       <<"N", "U", "L", "L", ".", " ">> \o NullText \o <<":">> >>

\* '~C' and the first nc of 'D.M :' and 'G. :'
CLines(nc) ==
    << <<"~", "C">> >> \o SubSeq(<< <<"D", ".", "M", " ", ":">>, <<"G", ".", " ", ":">> >>, 1, nc)

\* the data lines a file of nc curves is made of, one sample each: for two
\* curves '1 5', '2 5', '3 5', '2 -9' and '-9 5'
DataRows(nc) ==
    IF nc = 1 THEN IndexTexts
    ELSE {i \o <<" ", "5">> : i \in IndexTexts} \cup {<<"2", " ">> \o NullText}

RowSeqs(nc) == UNION {[1..k -> DataRows(nc)] : k \in 0..MaxSamples}

\* well formed files: every STEP, WRAP, curve count and sample sequence
DataFiles ==
    UNION { { VLines(w) \o WLines(st) \o CLines(nc) \o << <<"~", "A">> >> \o rows :
                w \in WrapTexts, st \in StepTexts, rows \in RowSeqs(nc) } :
            nc \in {1, 2} }

\* a line _parseline fails on, and two descending samples
BadLine == <<"x">>
TwoRows == << <<"2", " ", "5">>, <<"1", " ", "5">> >>

\* files with an unparsable line in one of the sections V, W, C or P
DegradedFiles ==
    { VLines(<<"N", "O">>) \o v \o WLines(st) \o w \o CLines(2) \o c
        \o << <<"~", "P">> >> \o q \o << <<"~", "A">> >> \o TwoRows :
        st \in {<<"-", "1">>, <<"0">>},
        v \in {<<>>, <<BadLine>>}, w \in {<<>>, <<BadLine>>},
        c \in {<<>>, <<BadLine>>}, q \in {<<>>, <<BadLine>>} }

\* files whose marker line is missing, misspelt, indented or repeated, and
\* files with a data token that is no number or with a token too few
OddFiles ==
    { VLines(<<"N", "O">>) \o WLines(<<"1">>) \o CLines(2) \o m \o rows :
        m \in { <<>>, << <<"~", "a">> >>, << <<" ", "~", "A", "S", "C", "I", "I">> >>,
                << <<"~", "A">>, <<"1", " ", "5">>, <<"~", "A">> >> },
        rows \in { <<>>, TwoRows, << <<"1", " ", "x">> >>, << <<"1", " ", "5">>, <<"2">> >> } }
    \cup {<<>>}

\* files with a tab in a line of section C, in the marker line and between
\* the data tokens, the second of them with another '~A' line in the data
TabFiles ==
    { VLines(<<"N", "O">>) \o WLines(<<"1">>)
        \o << <<"~", "C">>, <<"D", ".", "M", "\t", ":">>, <<"G", ".", " ", ":">> >>
        \o <<m>> \o rows :
        m \in { <<"~", "A", "\t", "D">>, <<"\t", "~", "A">> },
        rows \in { << <<"2", "\t", "5">>, <<"1", " ", "5">> >>,
                   << <<"1", "\t", "5">>, <<"~", "A">>, <<"2", " ", "5">> >> } }

Files == DataFiles \cup DegradedFiles \cup OddFiles \cup TabFiles

Init ==
    /\ pc = "start"
    /\ file \in Files
    /\ line = <<>>
    /\ parsed = NoParse
    /\ composed = <<>>
    /\ pos = 1
    /\ headerlines = <<>>
    /\ datalines = <<>>
    /\ header = <<>>
    /\ headersectionnames = <<>>
    /\ headerlayout = <<>>
    /\ headercomments = <<>>
    /\ data = <<>>
    /\ call = NoCall
    /\ headerstring = <<>>
    /\ datastring = <<>>
    /\ reparsed = NoHeader
    /\ returned = <<>>
    /\ error = ""

\* _getheaderlines, lines 279-281: seek(0) and the first readline()
OpenFile ==
    /\ pc = "start"
    /\ headerlines' = <<>>
    /\ line' = ReadLine(file, 1)
    /\ pos' = IF Len(file) >= 1 THEN 2 ELSE 1
    /\ pc' = "getheaderlines"
    /\ UNCHANGED <<returned, parsed, composed, file, datalines, header, headersectionnames,
                   headerlayout, headercomments, data, call, headerstring,
                   datastring, reparsed, error>>

\* _getheaderlines, lines 282-284: one iteration of the while loop. At the
\* end of the file readline() returns '', which is no marker line either;
\* the model follows at most MaxEofReads such iterations
HeaderLineLoop ==
    /\ pc = "getheaderlines"
    /\ ~IsDataMarker(line)
    /\ Len(headerlines) < Len(file) + MaxEofReads
    /\ headerlines' = Append(headerlines, ReplaceTabs(line))
    /\ line' = ReadLine(file, pos)
    /\ pos' = IF pos <= Len(file) THEN pos + 1 ELSE pos
    /\ UNCHANGED <<returned, pc, parsed, composed, file, datalines, header, headersectionnames,
                   headerlayout, headercomments, data, call, headerstring,
                   datastring, reparsed, error>>

\* _getheaderlines, lines 285-286: the marker line ends the loop
HeaderLinesDone ==
    /\ pc = "getheaderlines"
    /\ IsDataMarker(line)
    /\ headerlines' = Append(headerlines, line)
    /\ pc' = "getdatalines"
    /\ UNCHANGED <<returned, line, parsed, composed, file, pos, datalines, header,
                   headersectionnames, headerlayout, headercomments, data, call,
                   headerstring, datastring, reparsed, returned, error>>

\* _getdatalines: reached only when the file has a marker line
DoGetDataLines ==
    /\ pc = "getdatalines"
    /\ datalines' = GetDataLines(file)
    /\ line' = ReadLine(file, FirstMarker(file))
    /\ pos' = Len(file) + 1
    /\ pc' = "decode"
    /\ UNCHANGED <<returned, parsed, composed, file, headerlines, header, headersectionnames,
                   headerlayout, headercomments, data, call, headerstring,
                   datastring, reparsed, error>>

\* r is what _getheader returned or raised, d what the rest of read() did
StoreRead(r, d) ==
    /\ header' = IF r.ok THEN r.header ELSE header
    /\ headersectionnames' = IF r.ok THEN r.sectionnames ELSE headersectionnames
    /\ headerlayout' = IF r.ok THEN r.layout ELSE headerlayout
    /\ headercomments' = IF r.ok THEN r.comments ELSE headercomments
    /\ data' = IF d.ok THEN d.data ELSE data
    /\ error' = d.err
    /\ pc' = IF d.ok THEN "loaded" ELSE "readfailed"

\* read(), lines 541-554
DoDecode ==
    /\ pc = "decode"
    /\ StoreRead(GetHeader(headerlines), DecodeLoaded(GetHeader(headerlines), datalines))
    /\ UNCHANGED <<returned, line, parsed, composed, file, pos, headerlines, datalines, call,
                   headerstring, datastring, reparsed>>

\* w is what write() computed or raised before it opens the file;
\* _datatostring fills the nulls into data itself (copy=False)
StoreWrite(w) ==
    /\ headerstring' = w.headerstring
    /\ datastring' = w.datastring
    /\ data' = IF w.ok
               THEN FillNullValues(data, ParseFloat(ODGet(ODGet(header, "W").items,
                                                          NULLKey).DATA).val)
               ELSE data
    /\ error' = w.err
    /\ pc' = IF w.ok THEN "written" ELSE "writefailed"

\* write() of the loaded header, maps and data, lines 1070-1077
DoWrite ==
    /\ pc = "loaded"
    /\ StoreWrite(WriteStrings(HeaderToString(header, headersectionnames, headerlayout,
                                              headercomments),
                               header, data))
    /\ UNCHANGED <<returned, line, parsed, composed, file, pos, headerlines, datalines, header,
                   headersectionnames, headerlayout, headercomments, call, reparsed>>

Next ==
    \/ OpenFile
    \/ HeaderLineLoop
    \/ HeaderLinesDone
    \/ DoGetDataLines
    \/ DoDecode
    \/ DoWrite

Spec == Init /\ [][Next]_vars

-----------------------------------------------------------------------------
\* The export flow of layerstolas.py: read(), correctcurvesection with the
\* loaded names and one more, one more row of data, write().

\* LASReader.curvesnames and curvesunits: the MNEM and the UNIT field of every
\* line of the C section, in its order
CurvesNames(h) == [i \in 1..Len(ODGet(h, "C").items) |-> ODGet(h, "C").items[i].val.MNEM]

CurvesUnits(h) == [i \in 1..Len(ODGet(h, "C").items) |-> ODGet(h, "C").items[i].val.UNIT]

\* the description given to the new curve
ExportDesc ==
    <<"C", "r", "e", "a", "t", "e", "d", " ", "f", "r", "o", "m", " ", "a",
      "n", " ", "i", "m", "a", "g", "e", " ", "u", "s", "i", "n", "g", " ",
      "I", "m", "a", "g", "e", "T", "o", "L", "i", "t", "h", "o", "l", "o",
      "g", "y">>

\* the mnemonic of the new curve: a new one, and the names of the loaded curves
ExportMnems == {<<"N">>, <<"D">>, <<"G">>}

\* args.unit
ExportUnit == <<"u">>

\* the C section of the loaded files: two curves, two curves of one mnemonic,
\* one curve
ExportCurves ==
    { << <<"D", ".", "M", " ", ":">>, <<"G", ".", " ", ":">> >>,
      << <<"D", ".", "M", " ", ":">>, <<"D", ".", " ", ":">> >>,
      << <<"D", ".", "M", " ", ":">> >> }

\* two samples of nc curves: '1 5' and '2 5', or '1' and '2'
ExportRows(nc) ==
    IF nc = 1 THEN << <<"1">>, <<"2">> >>
    ELSE << <<"1", " ", "5">>, <<"2", " ", "5">> >>

ExportFiles ==
    { VLines(w) \o WLines(<<"1">>) \o << <<"~", "C">> >> \o c \o << <<"~", "A">> >>
        \o ExportRows(Len(c)) :
        w \in WrapTexts, c \in ExportCurves }

\* outputlas.header['C'][mnem]["DESC"] = ... on what correctcurvesection
\* returned
SetCurveDesc(h, mnem, desc) ==
    ODPut(h, "C", [ODGet(h, "C") EXCEPT
                      !.items = ODPut(@, mnem, [ODGet(@, mnem) EXCEPT !.DESC = desc])])

\* the header of outputlas, lines 89-90 of layerstolas.py
ExportHeader(h, mnem, unit) ==
    SetCurveDesc(CorrectCurveSection(h, Append(CurvesNames(h), mnem),
                                     Append(CurvesUnits(h), unit), FALSE, FALSE).returned,
                 mnem, ExportDesc)

\* log.reshape((1, -1)): one value for every sample of the loaded data
ExportLog(d) == [i \in 1..Len(d[1]) |-> Num(7)]

InitExport ==
    /\ pc = "start"
    /\ file \in ExportFiles
    /\ line = <<>>
    /\ parsed = NoParse
    /\ composed = <<>>
    /\ pos = 1
    /\ headerlines = <<>>
    /\ datalines = <<>>
    /\ header = <<>>
    /\ headersectionnames = <<>>
    /\ headerlayout = <<>>
    /\ headercomments = <<>>
    /\ data = <<>>
    /\ call = NoCall
    /\ headerstring = <<>>
    /\ datastring = <<>>
    /\ reparsed = NoHeader
    /\ returned = <<>>
    /\ error = ""

\* lines 89-94 of layerstolas.py: the header, the layout, the section names
\* and the data of outputlas. correctcurvesection is called without copy, so
\* the header of inputlas is the same object
DoExportCurve ==
    /\ pc = "loaded"
    /\ \E mnem \in ExportMnems :
        /\ call' = [mnem |-> mnem, unit |-> ExportUnit]
        /\ header' = ExportHeader(header, mnem, ExportUnit)
        /\ returned' = ExportHeader(header, mnem, ExportUnit)
        /\ headerlayout' = GetPrettyHeaderLayout(ExportHeader(header, mnem, ExportUnit),
                                                 DefaultStyle).layout
    /\ headercomments' = <<>>
    /\ data' = Append(data, ExportLog(data))
    /\ pc' = "exported"
    /\ UNCHANGED <<line, parsed, composed, file, pos, headerlines, datalines,
                   headersectionnames, headerstring, datastring, reparsed, error>>

\* outputlas.write(); the repeat counts of the layout are numpy.float64, which
\* _composeline accepts or refuses with TypeError, as in DoPrettyToString
DoExportWrite ==
    /\ pc = "exported"
    /\ \E floatrepeats \in BOOLEAN :
         StoreWrite(WriteStrings(IF floatrepeats
                                 THEN HeaderToString(header, headersectionnames,
                                                     headerlayout, headercomments)
                                 ELSE Raise("TypeError"),
                                 header, data))
    /\ UNCHANGED <<returned, line, parsed, composed, file, pos, headerlines, datalines,
                   header, headersectionnames, headerlayout, headercomments, call,
                   reparsed>>

NextExport ==
    \/ OpenFile
    \/ HeaderLineLoop
    \/ HeaderLinesDone
    \/ DoGetDataLines
    \/ DoDecode
    \/ DoExportCurve
    \/ DoExportWrite

SpecExport == InitExport /\ [][NextExport]_vars

-----------------------------------------------------------------------------
\* _getheader applied to headers whose section keys repeat.

\* two titles of key V, a title of key C, two lines that parse and one that
\* does not
SectionPool ==
    { <<"~", "V", "\n">>,
      <<"~", "v", "\n">>,
      <<"~", "c", "\n">>,
      <<"M", ".", "u", " ", "1", ":", "d", "\n">>,
      <<"N", ".", " ", ":", "\n">>,
      <<"x", "\n">> }

SectionDocs ==
    { body \o <<MarkerLine>> :
        body \in UNION {[1..k -> SectionPool] : k \in 0..MaxHeaderLines} }

InitSections ==
    /\ pc = "getheader"
    /\ headerlines \in SectionDocs
    /\ line = <<>>
    /\ parsed = NoParse
    /\ composed = <<>>
    /\ file = <<>>
    /\ pos = 0
    /\ datalines = <<>>
    /\ header = <<>>
    /\ headersectionnames = <<>>
    /\ headerlayout = <<>>
    /\ headercomments = <<>>
    /\ data = <<>>
    /\ call = NoCall
    /\ headerstring = <<>>
    /\ datastring = <<>>
    /\ reparsed = NoHeader
    /\ returned = <<>>
    /\ error = ""

NextSections == DoGetHeader

SpecSections == InitSections /\ [][NextSections]_vars

-----------------------------------------------------------------------------
\* Utils.fillgaps and Utils.compress on one-column images. An image is a
\* sequence of colours; the element Python calls a[i] is a[i + 1] here, and
\* the index arrays hold Python's indices.

\* _NULL_COLOR
NULLCOLOR == 0

\* what a call raised
NoImage == [ok |-> FALSE, err |-> "IndexError", image_1d |-> <<>>, newimage |-> <<>>]

\* colorchange: element i differs from element i + 1; the last is False
ColorChange(image_1d) ==
    [i \in 1..Len(image_1d) |->
        IF i < Len(image_1d) THEN image_1d[i + 1] - image_1d[i] # 0 ELSE FALSE]

\* np.roll(a, shift)
Roll(a, shift) == [i \in 1..Len(a) |-> a[((i - 1 - shift) % Len(a)) + 1]]

\* a*(image_1d == gapcolor), a an array of booleans
TimesIsGap(a, image_1d, gapcolor) ==
    [i \in 1..Len(a) |-> a[i] /\ image_1d[i] = gapcolor]

\* np.arange(nrows)[mask]
Arange(mask) == SelectSeq([i \in 1..Len(mask) |-> i - 1], LAMBDA j : mask[j + 1])

ChangeToGap(image_1d, gapcolor) ==
    Roll(TimesIsGap(Roll(ColorChange(image_1d), 1), image_1d, gapcolor), -1)

ChangeFromGap(image_1d, gapcolor) ==
    Roll(TimesIsGap(ColorChange(image_1d), image_1d, gapcolor), 1)

\* a variant of DeleteAt that deletes nothing
DeleteNever(a, last) == a

\* np.delete(a, 0) and np.delete(a, -1) of an array that is not empty
DeleteAt(a, last) == IF last THEN SubSeq(a, 1, Len(a) - 1) ELSE Tail(a)

\* newimage[beg+1:end] = image_1d[beg]
FillSlice(newimage, beg, end, color) ==
    [i \in 1..Len(newimage) |-> IF beg + 1 <= i - 1 /\ i - 1 < end THEN color ELSE newimage[i]]

\* the loop over zip(ctbidxs, cfbidxs)
RECURSIVE FillLoop(_, _, _, _)
FillLoop(newimage, image_1d, ctbidxs, cfbidxs) ==
    IF ctbidxs = <<>> \/ cfbidxs = <<>> THEN newimage
    ELSE FillLoop(IF image_1d[Head(ctbidxs) + 1] = image_1d[Head(cfbidxs) + 1]
                  THEN FillSlice(newimage, Head(ctbidxs), Head(cfbidxs),
                                 image_1d[Head(ctbidxs) + 1])
                  ELSE newimage,
                  image_1d, Tail(ctbidxs), Tail(cfbidxs))

\* the index arrays after the two tests of the first and the last element
CtbIdxs(image_1d, gapcolor) ==
    IF image_1d[Len(image_1d)] = gapcolor /\ Arange(ChangeToGap(image_1d, gapcolor)) # <<>>
    THEN DeleteAt(Arange(ChangeToGap(image_1d, gapcolor)), TRUE)
    ELSE Arange(ChangeToGap(image_1d, gapcolor))

CfbIdxs(image_1d, gapcolor) ==
    IF image_1d[1] = gapcolor /\ Arange(ChangeFromGap(image_1d, gapcolor)) # <<>>
    THEN DeleteAt(Arange(ChangeFromGap(image_1d, gapcolor)), FALSE)
    ELSE Arange(ChangeFromGap(image_1d, gapcolor))

\* np.delete is called on an empty array: an image of gap colour only
DeletesFromEmpty(image_1d, gapcolor) ==
    \/ image_1d[1] = gapcolor /\ Arange(ChangeFromGap(image_1d, gapcolor)) = <<>>
    \/ image_1d[Len(image_1d)] = gapcolor /\ Arange(ChangeToGap(image_1d, gapcolor)) = <<>>

\* fillgaps(image_1d, gapcolor). colorchange[-1] = False raises IndexError
\* for an empty image; np.delete of an index an empty array does not have
\* raises IndexError or, in the releases before numpy 1.19, is ignored
\* (strict tells which)
FillGaps(image_1d, gapcolor, strict) ==
    IF image_1d = <<>> THEN NoImage
    ELSE IF strict /\ DeletesFromEmpty(image_1d, gapcolor) THEN NoImage
    ELSE [ok |-> TRUE, err |-> "", image_1d |-> image_1d,
          newimage |-> FillLoop(image_1d, image_1d, CtbIdxs(image_1d, gapcolor),
                                CfbIdxs(image_1d, gapcolor))]

\* a variant of IsGapColor for which no colour is the gap colour
IsGapNever(color, gapcolor) == FALSE

\* colors == gapcolor, for one element
IsGapColor(color, gapcolor) == color = gapcolor

\* bottoms and tops before the gap runs are taken out
Bottoms(image_1d) == Append(Arange(ColorChange(image_1d)), Len(image_1d) - 1)

Tops(image_1d) ==
    <<0>> \o [k \in 1..Len(Arange(ColorChange(image_1d))) |->
                Arange(ColorChange(image_1d))[k] + 1]

\* a[~isgap] for the runs of image_1d: the elements of a whose run is not of
\* gap colour
NotGap(a, image_1d, gapcolor) ==
    [k \in 1..Len(SelectSeq([j \in 1..Len(a) |-> j],
                            LAMBDA j : ~IsGapColor(image_1d[Bottoms(image_1d)[j] + 1],
                                                   gapcolor))) |->
        a[SelectSeq([j \in 1..Len(a) |-> j],
                    LAMBDA j : ~IsGapColor(image_1d[Bottoms(image_1d)[j] + 1],
                                           gapcolor))[k]]]

\* compress(image_1d, gapcolor): colors, tops, bottoms
Compress(image_1d, gapcolor) ==
    IF image_1d = <<>> THEN [ok |-> FALSE, err |-> "IndexError"]
    ELSE [ok |-> TRUE, err |-> "",
          colors |-> NotGap([k \in 1..Len(Bottoms(image_1d)) |->
                                image_1d[Bottoms(image_1d)[k] + 1]],
                            image_1d, gapcolor),
          tops |-> NotGap(Tops(image_1d), image_1d, gapcolor),
          bottoms |-> NotGap(Bottoms(image_1d), image_1d, gapcolor)]

\* the colours of the generated images and the gap colours of the calls
Colors == {NULLCOLOR, 1, 2}
GapColors == {NULLCOLOR, 2}

Images == UNION {[1..n -> Colors] : n \in 0..MaxRows}

InitImage ==
    /\ pc = "image"
    /\ data \in Images
    /\ line = <<>>
    /\ parsed = NoParse
    /\ composed = <<>>
    /\ file = <<>>
    /\ pos = 0
    /\ headerlines = <<>>
    /\ datalines = <<>>
    /\ header = <<>>
    /\ headersectionnames = <<>>
    /\ headerlayout = <<>>
    /\ headercomments = <<>>
    /\ call = NoCall
    /\ headerstring = <<>>
    /\ datastring = <<>>
    /\ reparsed = NoHeader
    /\ returned = <<>>
    /\ error = ""

\* r is what fillgaps returned or raised
StoreFilled(r) ==
    /\ returned' = r.newimage
    /\ data' = IF r.ok THEN r.image_1d ELSE data
    /\ error' = r.err
    /\ pc' = IF r.ok THEN "filled" ELSE "fillfailed"

\* newimage = Utils.fillgaps(image_1d, gapcolor); data is image_1d
DoFillGaps ==
    /\ pc = "image"
    /\ \E gapcolor \in GapColors, strict \in BOOLEAN :
        /\ call' = [fn |-> "fillgaps", image_1d |-> data, gapcolor |-> gapcolor]
        /\ StoreFilled(FillGaps(data, gapcolor, strict))
    /\ UNCHANGED <<line, parsed, composed, file, pos, headerlines, datalines, header,
                   headersectionnames, headerlayout, headercomments, headerstring,
                   datastring, reparsed>>

\* r is what compress returned or raised
StoreCompressed(r) ==
    /\ returned' = IF r.ok THEN [colors |-> r.colors, tops |-> r.tops,
                                 bottoms |-> r.bottoms]
                   ELSE <<>>
    /\ error' = r.err
    /\ pc' = IF r.ok THEN "compressed" ELSE "compressfailed"

\* layercolors, tops, bottoms = Utils.compress(image_1d, gapcolor) of the
\* image as it is (imagetolayers.py with --dontfillgaps)
DoCompress ==
    /\ pc = "image"
    /\ \E gapcolor \in GapColors :
        /\ call' = [fn |-> "compress", image_1d |-> data, gapcolor |-> gapcolor]
        /\ StoreCompressed(Compress(data, gapcolor))
    /\ UNCHANGED <<line, parsed, composed, file, pos, headerlines, datalines, header,
                   headersectionnames, headerlayout, headercomments, data,
                   headerstring, datastring, reparsed>>

\* the same of the image fillgaps returned, with its gap colour
\* (imagetolayers.py 54-57)
DoCompressFilled ==
    /\ pc = "filled"
    /\ call' = [fn |-> "compress", image_1d |-> returned, gapcolor |-> call.gapcolor]
    /\ StoreCompressed(Compress(returned, call.gapcolor))
    /\ UNCHANGED <<line, parsed, composed, file, pos, headerlines, datalines, header,
                   headersectionnames, headerlayout, headercomments, data,
                   headerstring, datastring, reparsed>>

NextImage == DoFillGaps \/ DoCompress \/ DoCompressFilled

SpecImage == InitImage /\ [][NextImage]_vars

-----------------------------------------------------------------------------
\* C1: round-trip law: composing the fields of a parsed line with the layout
\* captured by _parseline gives back the source line, character for character.
C1_LineRoundTrip == pc = "composed" => composed = line

\* number of spaces at the start of s
RECURSIVE LeadingSpaces(_)
LeadingSpaces(s) ==
    IF s # <<>> /\ Head(s) = " " THEN 1 + LeadingSpaces(Tail(s)) ELSE 0

\* the text of line l that follows UNIT: UNIT is the text between the first
\* period and the next space
AfterUnit(l) ==
    LET afterperiod == SubSeq(l, IndexOf(l, ".") + 1, Len(l))
    IN  SubSeq(afterperiod, Len(Split1(afterperiod, " ")[1]) + 1, Len(afterperiod))

\* C2: the layout holds the whitespace run lengths of the source line; its
\* third entry is the full number of spaces between the end of UNIT and the
\* start of DATA (or the colon), so that Example B has layout [2,0,7,0,1,2].
C2_LayoutRunLengths ==
    pc = "parsed" =>
        /\ parsed.layout[3] = LeadingSpaces(AfterUnit(line))
        /\ line = ExampleB => parsed.layout = <<2, 0, 7, 0, 1, 2>>

\* every section other than the data section is an OrderedDict with lines
AllStructured ==
    \A s \in 1..Len(header) :
        header[s].key # "A" => header[s].val.kind = "dict" /\ header[s].val.items # <<>>

\* C3: a header whose sections are all structured and non-empty, composed
\* without a layout map and parsed again, comes back with the same section
\* keys, the same line keys and the same fields, all in the same order.
C3_DefaultLayoutRoundTrip ==
    (pc = "reparsed" /\ ~call.layout /\ call.withA /\ AllStructured)
        => reparsed.ok /\ reparsed.header = header

\* a header with a section of two lines went through the default layout
C3_Witness ==
    /\ pc = "reparsed" /\ ~call.layout /\ call.withA /\ AllStructured
    /\ \E s \in 1..Len(header) :
        header[s].val.kind = "dict" /\ Len(header[s].val.items) >= 2

\* the ordinary lines the first loop of _getheader collected under a key
SourceLines(key) == ODGet(ScanLines(ScanStart, headerlines).header, key)

\* M, M_0001, M_0002, ...
Suffixed(m, k) == IF k = 0 THEN m ELSE m \o <<"_">> \o ZeroFill4(k)

\* the section has one entry per source line, in file order, every entry
\* holds the fields of its line with the mnemonic as written, and no two
\* entries share a key
OneEntryPerLine(key, items) ==
    /\ Len(items) = Len(SourceLines(key))
    /\ \A j \in 1..Len(items) :
        items[j].val = ParseLine(SourceLines(key)[j], TRUE).parsedline
    /\ \A i, j \in 1..Len(items) : i # j => items[i].key # items[j].key

\* number of lines before line j with the mnemonic of line j
Repeats(items, j) ==
    Cardinality({i \in 1..(j - 1) : items[i].val.MNEM = items[j].val.MNEM})

\* the keys of the lines before line j
EarlierKeys(items, j) == {items[i].key : i \in 1..(j - 1)}

\* the key of line j is the first of M, M_0001, M_0002, ... that is no key
\* of an earlier line
FirstFreeKey(items, j) ==
    \E k \in 0..Len(items) :
        /\ items[j].key = Suffixed(items[j].val.MNEM, k)
        /\ items[j].key \notin EarlierKeys(items, j)
        /\ \A k2 \in 0..(k - 1) :
            Suffixed(items[j].val.MNEM, k2) \in EarlierKeys(items, j)

\* C4 as stated: in every section that parses completely the first line with
\* mnemonic M has key M and its k-th repeat has key M_000k, with one entry
\* per source line, distinct keys and unsuffixed MNEM fields.
C4_RepeatNumbering ==
    pc = "header" =>
        \A s \in 1..Len(header) :
            header[s].val.kind = "dict" =>
                /\ OneEntryPerLine(header[s].key, header[s].val.items)
                /\ \A j \in 1..Len(header[s].val.items) :
                    header[s].val.items[j].key =
                        Suffixed(header[s].val.items[j].val.MNEM,
                                 Repeats(header[s].val.items, j))

\* C4 amended: in every section that parses completely each line gets the
\* first of M, M_0001, M_0002, ... that is not yet the key of an earlier
\* line, with one entry per source line, distinct keys and unsuffixed MNEM
\* fields.
C4_FirstUnusedSuffix ==
    pc = "header" =>
        \A s \in 1..Len(header) :
            header[s].val.kind = "dict" =>
                /\ OneEntryPerLine(header[s].key, header[s].val.items)
                /\ \A j \in 1..Len(header[s].val.items) :
                    FirstFreeKey(header[s].val.items, j)

\* a section where a line written 'M_0001' stands between two lines 'M'
C4_Witness ==
    /\ pc = "header"
    /\ \E s \in 1..Len(header) :
        /\ header[s].val.kind = "dict"
        /\ Len(header[s].val.items) = 3
        /\ header[s].val.items[1].val.MNEM = <<"M">>
        /\ header[s].val.items[2].val.MNEM = <<"M", "_", "0", "0", "0", "1">>
        /\ header[s].val.items[3].val.MNEM = <<"M">>

\* the title _headertostring ends with: the recorded title of the data
\* section when the titles map is passed, '~A' otherwise
MarkerTitle == IF call.sectionnames THEN headersectionnames["A"] ELSE <<"~", "A">>

\* C10: every call of _headertostring succeeds, also for a header without an
\* 'A' entry, and the last line of its result is the data marker title.
C10_MarkerAlwaysLast ==
    /\ pc # "tostringfailed"
    /\ pc = "headerstring" =>
        SplitLines(headerstring)[Len(SplitLines(headerstring))] = MarkerTitle

-----------------------------------------------------------------------------
\* The source document and the written text, as read() and write() see them.

\* NULL and STEP as the W section declares them
DeclaredNull == ParseFloat(ODGet(ODGet(header, "W").items, NULLKey).DATA).val
DeclaredStep == ParseFloat(ODGet(ODGet(header, "W").items, STEPKey).DATA).val

NCurves == Len(data)
NSamples == Len(data[1])

\* the numbers of the source data section and of the written one, in text order
SrcTokens == GetFlatData(datalines).vals
OutTokens == GetFlatData(SplitLines(datastring)).vals

\* the value of curve i in the k-th sample of the text
SrcValue(i, k) == SrcTokens[(k - 1) * NCurves + i]
OutValue(i, k) == OutTokens[(k - 1) * NCurves + i]

\* the index column on disk, NULL read as missing
SrcIndex ==
    [k \in 1..NSamples |->
        IF FEq(SrcValue(1, k), DeclaredNull) THEN NaN ELSE SrcValue(1, k)]

\* the finite values of row never go down / never go up
NonDecreasing(row) ==
    \A i, j \in 1..Len(row) : i < j => ~FLt(row[j], row[i])
NonIncreasing(row) ==
    \A i, j \in 1..Len(row) : i < j => ~FLt(row[i], row[j])

Reversed(row) == [j \in 1..Len(row) |-> row[Len(row) + 1 - j]]

\* the step read() goes by: the declared one, or the difference of the first
\* two index values when STEP is NULL or zero
StepInferred == FEq(DeclaredStep, DeclaredNull) \/ FEq(DeclaredStep, Num(0))
EffectiveStep ==
    IF StepInferred THEN FSub(SrcIndex[2], SrcIndex[1]) ELSE DeclaredStep

\* C5 as stated: after read() row 0 of data is non-decreasing, whatever the
\* on-disk order and the declared STEP are.
C5_AscendingAfterRead == pc = "loaded" => NonDecreasing(data[1])

\* C5 amended: after read() row 0 of data is the on-disk index column,
\* reversed exactly when the effective step is negative; it is non-decreasing
\* exactly when the on-disk order agrees with the sign of the effective step.
C5_AscendingWhenStepAgrees ==
    pc = "loaded" =>
        /\ data[1] = IF FLt(EffectiveStep, Num(0)) THEN Reversed(SrcIndex) ELSE SrcIndex
        /\ NonDecreasing(data[1]) <=>
            IF FLt(EffectiveStep, Num(0)) THEN NonIncreasing(SrcIndex)
            ELSE NonDecreasing(SrcIndex)

\* three samples stored 3, 2, 1 under a declared STEP of -1 were read
C5_Witness ==
    /\ pc = "loaded"
    /\ ~StepInferred /\ FLt(DeclaredStep, Num(0))
    /\ NSamples = 3
    /\ SrcIndex = <<Num(3), Num(2), Num(1)>>
    /\ data[1] = <<Num(1), Num(2), Num(3)>>

\* C6: with a declared negative STEP other than NULL and samples stored in
\* descending index order, read() then write() emits the samples in the
\* on-disk order: sample k of the written text holds the values of sample k
\* of the source.
C6_NegativeStepOrderRoundTrip ==
    (pc = "written" /\ ~StepInferred /\ FLt(DeclaredStep, Num(0))
        /\ NonIncreasing(SrcIndex))
        => /\ Len(OutTokens) = Len(SrcTokens)
           /\ \A i \in 1..NCurves, k \in 1..NSamples :
                FEq(OutValue(i, k), SrcValue(i, k))

\* two curves stored at 3, 2, 1 under a declared STEP of -1 were written
C6_Witness ==
    /\ pc = "written"
    /\ ~StepInferred /\ FLt(DeclaredStep, Num(0))
    /\ NCurves = 2 /\ NSamples = 3
    /\ SrcIndex = <<Num(3), Num(2), Num(1)>>
    /\ OutValue(1, 1) = Num(3) /\ OutValue(1, 3) = Num(1)

\* where sample k of the source is in data after read(), and in the text
\* after write()
MemPos(k) == IF FLt(EffectiveStep, Num(0)) THEN NSamples + 1 - k ELSE k
OutPos(k) == IF StepInferred THEN MemPos(k) ELSE k

\* C7 as stated: every token equal to NULL decodes to NaN, in every curve,
\* and read() then write() has a NULL at a (curve, sample) position of the
\* output exactly when the source has one at that position.
C7_NullPositionsKept ==
    /\ pc = "loaded" =>
        \A i \in 1..NCurves, k \in 1..NSamples :
            FEq(SrcValue(i, k), DeclaredNull) <=> data[i][MemPos(k)].nan
    /\ pc = "written" =>
        /\ Len(OutTokens) = Len(SrcTokens)
        /\ \A i \in 1..NCurves, k \in 1..NSamples :
            FEq(SrcValue(i, k), DeclaredNull) <=> FEq(OutValue(i, k), DeclaredNull)

\* C7 amended: every token equal to NULL decodes to NaN, in every curve, and
\* read() then write() has a NULL in curve i of output sample OutPos(k)
\* exactly when the source has one in curve i of sample k: the same sample,
\* except that the sample order is reversed when the step was inferred
\* negative.
C7_NullPositionsFollowOrder ==
    /\ pc = "loaded" =>
        \A i \in 1..NCurves, k \in 1..NSamples :
            FEq(SrcValue(i, k), DeclaredNull) <=> data[i][MemPos(k)].nan
    /\ pc = "written" =>
        /\ Len(OutTokens) = Len(SrcTokens)
        /\ \A i \in 1..NCurves, k \in 1..NSamples :
            FEq(SrcValue(i, k), DeclaredNull)
                <=> FEq(OutValue(i, OutPos(k)), DeclaredNull)

\* a NULL in the second curve of the first of three samples was written
C7_Witness ==
    /\ pc = "written"
    /\ NCurves = 2 /\ NSamples = 3
    /\ FEq(SrcValue(2, 1), DeclaredNull)
    /\ ~FEq(SrcValue(2, 3), DeclaredNull)
    /\ FEq(OutValue(2, OutPos(1)), DeclaredNull)

\* the file has no line whose left-trimmed text starts with '~A'
NoMarker == \A i \in 1..Len(file) : ~IsDataMarker(ReadLine(file, i))

\* C8: once the lexer has read past the end of a file without marker line,
\* the load has ended with an error.
C8_MissingMarkerFails ==
    (NoMarker /\ pc # "start" /\ Len(headerlines) > Len(file)) => pc = "readfailed"

\* an ordinary header line (no comment, no title) that _parseline fails on
BadOrdinary(l) ==
    /\ l # <<>>
    /\ ~StartsWith(LStrip(l), <<"#">>)
    /\ ~StartsWith(LStrip(l), <<"~">>)
    /\ ~ParseLine(FirstLine(l), TRUE).ok

NotBadOrdinary(l) == ~BadOrdinary(l)

\* the header lines without the unparsable ones
WithoutBadLines == SelectSeq(headerlines, NotBadOrdinary)

\* the section key has a line that _parseline fails on
HasBadLine(key) ==
    \E j \in 1..Len(SourceLines(key)) : ~ParseLine(SourceLines(key)[j], TRUE).ok

\* C9: when a document that loads without its unparsable header lines has
\* such a line in a section, read() still returns, with that section as
\* raw text.
C9_LineFailuresContained ==
    (/\ pc \in {"loaded", "readfailed"}
     /\ \E i \in 1..Len(headerlines) : BadOrdinary(headerlines[i])
     /\ DecodeLoaded(GetHeader(WithoutBadLines), datalines).ok)
        => /\ pc = "loaded"
           /\ \A s \in 1..Len(header) :
                HasBadLine(header[s].key) => header[s].val.kind = "str"

-----------------------------------------------------------------------------
\* Properties of _headertostring beyond the round trip.

\* the lines of the text _headertostring returned
OutLines == SplitLines(headerstring)

\* the zero-based output line index i holds the comment recorded for i
CommentAt(i) == i < Len(OutLines) /\ OutLines[i + 1] = headercomments[i]

\* C11: every comment of the comments map passed to _headertostring is in
\* the output, at the zero-based line index it is recorded for, and the
\* output has no other comment line.
C11_CommentsReplayed ==
    (pc = "headerstring" /\ call.comments) =>
        /\ \A i \in DOMAIN headercomments : CommentAt(i)
        /\ Cardinality({j \in 1..Len(OutLines) : StartsWith(LStrip(OutLines[j]), <<"#">>)})
            = Cardinality(DOMAIN headercomments)

\* C12: getprettyheaderlayout succeeds for every header and its result has,
\* for every structured section, one vector of six non-negative entries per
\* line key, so that _headertostring with that layout succeeds.
C12_PrettyLayoutFits ==
    /\ pc \notin {"prettyfailed", "prettystringfailed"}
    /\ pc = "pretty" =>
        \A s \in 1..Len(header) :
            IsStructured(header[s]) =>
                /\ header[s].key \in DOMAIN headerlayout
                /\ DOMAIN headerlayout[header[s].key] = ODKeys(header[s].val.items)
                /\ \A k \in DOMAIN headerlayout[header[s].key] :
                    /\ Len(headerlayout[header[s].key][k]) = 6
                    /\ \A n \in 1..6 : headerlayout[header[s].key][k][n] >= 0

-----------------------------------------------------------------------------
\* Properties of the corrections.

\* the header as it was loaded, before the call
Before == GetHeader(headerlines).header

\* the C section of the returned header has a line per name of mnems, in
\* that order: the line the section had under that key with its DATA and
\* DESC and the new unit, or a new line without DATA and DESC
CurvesAsKept(before, after, mnems, units) ==
    /\ after.kind = "dict"
    /\ Len(after.items) = Len(mnems)
    /\ \A i \in 1..Len(mnems) :
        /\ after.items[i].key = mnems[i]
        /\ after.items[i].val =
            IF mnems[i] \in ODKeys(before.items)
            THEN [ODGet(before.items, mnems[i]) EXCEPT !.UNIT = units[i]]
            ELSE NewCurve(mnems[i], units[i])

\* C13: correctcurvesection with keep=True, on a header with a structured C
\* section, returns a header in which every other section is present and
\* unchanged and the C section holds the lines named by mnems, in that order.
C13_KeepChangesOnlyCurves ==
    (/\ pc \in {"curvescorrected", "curvesfailed"}
     /\ call.keep
     /\ "C" \in ODKeys(Before)
     /\ ODGet(Before, "C").kind = "dict")
        => /\ pc = "curvescorrected"
           /\ \A s \in 1..Len(Before) :
                Before[s].key # "C" =>
                    /\ Before[s].key \in ODKeys(returned)
                    /\ ODGet(returned, Before[s].key) = Before[s].val
           /\ "C" \in ODKeys(returned)
           /\ CurvesAsKept(ODGet(Before, "C"), ODGet(returned, "C"), call.mnems,
                           call.units)

\* C14: after a correction with copy=True has returned, the header passed
\* in is as it was before the call, in every section and every line field.
C14_CopyProtectsHeader ==
    (pc \in {"curvescorrected", "wellcorrected"} /\ call.copy) => header = Before

-----------------------------------------------------------------------------
\* Properties of the section variants.

IsCommentLine(l) == StartsWith(LStrip(l), <<"#">>)
IsTitleLine(l) == StartsWith(LStrip(l), <<"~">>)
IsOrdinaryLine(l) == l # <<>> /\ ~IsCommentLine(l) /\ ~IsTitleLine(l)

\* the key a title line gives its section
TitleKey(l) == Upper(LStrip(l)[2])

\* the position in headerlines of the last title line with this key
LastTitle(key) ==
    CHOOSE j \in 1..Len(headerlines) :
        /\ IsTitleLine(headerlines[j]) /\ TitleKey(headerlines[j]) = key
        /\ \A k \in (j + 1)..Len(headerlines) :
            IsTitleLine(headerlines[k]) => TitleKey(headerlines[k]) # key

\* the position of the first title line after position j, or one past the end
NextTitle(j) ==
    CHOOSE n \in (j + 1)..(Len(headerlines) + 1) :
        /\ n <= Len(headerlines) => IsTitleLine(headerlines[n])
        /\ \A k \in (j + 1)..(n - 1) : ~IsTitleLine(headerlines[k])

\* the ordinary lines of the section, in file order, without line ends
SectionBody(key) ==
    LET from == LastTitle(key)
        lines == SubSeq(headerlines, from + 1, NextTitle(from) - 1)
        ordinary == SelectSeq(lines, IsOrdinaryLine)
    IN  [j \in 1..Len(ordinary) |-> FirstLine(ordinary[j])]

AllLinesParse(body) == \A j \in 1..Len(body) : ParseLine(body[j], TRUE).ok

\* the section is structured with a line per ordinary line, or it is the raw
\* text of its ordinary lines and the layout has no entry for it
AllOrNothing(key, section, body) ==
    /\ section.kind = "dict" <=> AllLinesParse(body)
    /\ section.kind = "dict" =>
        /\ Len(section.items) = Len(body)
        /\ key \in DOMAIN headerlayout
    /\ section.kind = "str" =>
        /\ section.text = JoinLines(body)
        /\ key \notin DOMAIN headerlayout

\* C15: after _getheader every section that has an ordinary line is
\* structured, with an entry per line, exactly when all its ordinary lines
\* parse, and otherwise is the raw text of all its ordinary lines joined by
\* newline, with no entry in the layout; the other sections do not matter.
C15_AllOrNothing ==
    pc = "header" =>
        \A s \in 1..Len(header) :
            SectionBody(header[s].key) # <<>> =>
                AllOrNothing(header[s].key, header[s].val, SectionBody(header[s].key))

\* a raw section with a line that parses and a line that does not
C15_Witness ==
    /\ pc = "header"
    /\ \E s \in 1..Len(header) :
        /\ header[s].val.kind = "str"
        /\ \E i, j \in 1..Len(SectionBody(header[s].key)) :
            /\ ParseLine(SectionBody(header[s].key)[i], TRUE).ok
            /\ ~ParseLine(SectionBody(header[s].key)[j], TRUE).ok

-----------------------------------------------------------------------------
\* Properties of the line parser's failures.

\* the least element of a non-empty set of numbers, 0 for the empty set
MinOf(S) == IF S = {} THEN 0 ELSE CHOOSE x \in S : \A y \in S : x <= y

\* the positions in line of the last colon, of the first period before it
\* and of the first space between the two; 0 when there is none
ColonAt == LastIndexOf(line, ":")
PeriodAt == MinOf({i \in 1..(ColonAt - 1) : line[i] = "."})
SpaceAt ==
    IF PeriodAt = 0 THEN 0
    ELSE MinOf({i \in (PeriodAt + 1)..(ColonAt - 1) : line[i] = " "})

\* the four fields cut at these positions, stripped
FieldsAt(c, p, sp) ==
    [MNEM |-> Strip(SubSeq(line, 1, p - 1)),
     UNIT |-> Strip(SubSeq(line, p + 1, sp - 1)),
     DATA |-> Strip(SubSeq(line, sp + 1, c - 1)),
     DESC |-> Strip(SubSeq(line, c + 1, Len(line)))]

\* C16 as stated: _parseline fails exactly on the lines without colon and on
\* the lines whose text before the last colon has no space.
C16_FailsWithoutColonOrSpace ==
    pc \in {"parsed", "failed"} =>
        (pc = "failed" <=>
            \/ ColonAt = 0
            \/ \A i \in 1..(ColonAt - 1) : line[i] # " ")

\* C16: _parseline fails, with ValueError, exactly on the lines without
\* colon, the lines whose text before the last colon has no period, and the
\* lines with no space between the first period and the last colon; on every
\* other line it returns the four fields cut at the last colon, the first
\* period and the first space after that period, stripped, so that anything
\* after the last colon is DESC.
C16_ParseFailureConditions ==
    pc \in {"parsed", "failed"} =>
        /\ pc = "failed" <=> (ColonAt = 0 \/ PeriodAt = 0 \/ SpaceAt = 0)
        /\ pc = "failed" => error = "ValueError"
        /\ pc = "parsed" => parsed.parsedline = FieldsAt(ColonAt, PeriodAt, SpaceAt)

\* a failure on a line with a colon and a space before the last colon
C16_Witness ==
    /\ pc = "failed"
    /\ ColonAt # 0
    /\ \E i \in 1..(ColonAt - 1) : line[i] = " "

-----------------------------------------------------------------------------
\* Properties of the lexer.

\* the number of the first line of the file whose left-trimmed text starts
\* with '~A', 0 when there is none
MarkerAt == MinOf({i \in 1..Len(file) : StartsWith(LStrip(file[i]), <<"~", "A">>)})

\* out is the line src of the file as readline() returns it
Verbatim(src, out) == out = src \o <<"\n">>

\* out is that line with a space in the place of every tab
TabsReplaced(src, out) ==
    /\ Len(out) = Len(src) + 1
    /\ out[Len(out)] = "\n"
    /\ \A i \in 1..Len(src) : out[i] = (IF src[i] = "\t" THEN " " ELSE src[i])

\* the data lines are the lines after the first marker line, as they are
DataLinesAfterMarker ==
    /\ Len(datalines) = Len(file) - MarkerAt
    /\ \A i \in 1..Len(datalines) : Verbatim(file[MarkerAt + i], datalines[i])

\* C17 as stated: the header lines are the lines of the file up to and
\* including the first marker line, each with every tab replaced by a space,
\* and the data lines are the lines after it.
C17_LexerSplitAllTabsReplaced ==
    pc = "decode" =>
        /\ Len(headerlines) = MarkerAt
        /\ \A i \in 1..MarkerAt : TabsReplaced(file[i], headerlines[i])
        /\ DataLinesAfterMarker

\* C17: for a file with a marker line the header lines are the lines up to
\* and including the first marker line, the data lines are the lines after
\* it (a later '~A' line is a data line), every line is in exactly one of
\* the two lists, and every tab in the header lines before the marker line
\* is replaced by a space, while the marker line is kept as it is.
C17_LexerSplit ==
    pc = "decode" =>
        /\ MarkerAt # 0
        /\ Len(headerlines) = MarkerAt
        /\ \A i \in 1..(MarkerAt - 1) : TabsReplaced(file[i], headerlines[i])
        /\ Verbatim(file[MarkerAt], headerlines[MarkerAt])
        /\ DataLinesAfterMarker

\* a file with a tab before the marker line, a tab in the marker line and
\* another '~A' line after it
C17_Witness ==
    /\ pc = "decode"
    /\ \E i \in 1..(MarkerAt - 1) : \E k \in 1..Len(file[i]) : file[i][k] = "\t"
    /\ \E k \in 1..Len(file[MarkerAt]) : file[MarkerAt][k] = "\t"
    /\ \E i \in (MarkerAt + 1)..Len(file) : StartsWith(LStrip(file[i]), <<"~", "A">>)

-----------------------------------------------------------------------------
\* Properties of the decoded matrix.

\* read() got a header with the sections C and W, NULL and STEP are numbers
\* and every data token is a number
Decodable ==
    /\ {"C", "W"} \subseteq ODKeys(header)
    /\ ODGet(header, "W").kind = "dict"
    /\ {NULLKey, STEPKey} \subseteq ODKeys(ODGet(header, "W").items)
    /\ ParseFloat(ODGet(ODGet(header, "W").items, NULLKey).DATA).ok
    /\ ParseFloat(ODGet(ODGet(header, "W").items, STEPKey).DATA).ok
    /\ GetFlatData(datalines).ok

\* the curve count read() goes by and the number of data tokens
CurveCount == SectionLen(ODGet(header, "C"))
TokenCount == Len(SrcTokens)

\* the n-th token of the data section, NULL read as missing
Token(n) == IF FEq(SrcTokens[n], DeclaredNull) THEN NaN ELSE SrcTokens[n]

\* row i of data in on-disk sample order
OnDiskRow(i) == IF FLt(EffectiveStep, Num(0)) THEN Reversed(data[i]) ELSE data[i]

\* C18: when the number N of data tokens is no multiple of the curve count c
\* the decoding fails with the reshape's ValueError; otherwise the matrix is
\* built (read() can only fail later, inferring the step from fewer than two
\* samples) and has c rows of N / c values, and in on-disk sample order
\* the j-th value of row i is token (j - 1) * c + i, counted from one.
C18_DataReshape ==
    (pc \in {"loaded", "readfailed"} /\ Decodable /\ CurveCount > 0) =>
        /\ TokenCount % CurveCount # 0 => pc = "readfailed" /\ error = "ValueError"
        /\ TokenCount % CurveCount = 0 => pc = "loaded" \/ error = "IndexError"
        /\ pc = "loaded" =>
            /\ Len(data) = CurveCount
            /\ \A i \in 1..CurveCount :
                /\ Len(data[i]) = TokenCount \div CurveCount
                /\ \A j \in 1..(TokenCount \div CurveCount) :
                    OnDiskRow(i)[j] = Token((j - 1) * CurveCount + i)

\* six tokens were decoded into two rows of three values
C18_Witness ==
    /\ pc = "loaded"
    /\ CurveCount = 2
    /\ TokenCount = 6
    /\ Len(data) = 2
    /\ Len(data[2]) = 3

\* curve i of the data section in on-disk sample order, NULL read as missing
DiskRow(i) ==
    [j \in 1..(TokenCount \div CurveCount) |-> Token((j - 1) * CurveCount + i)]

\* the step the order is decided by: the declared STEP, or, when that equals
\* NULL or zero, the second index value minus the first
StepUsed ==
    IF FEq(DeclaredStep, DeclaredNull) \/ FEq(DeclaredStep, Num(0))
    THEN FSub(Token(CurveCount + 1), Token(1))
    ELSE DeclaredStep

\* C19: after read() every row of data is its curve in on-disk sample order
\* when the effective step is not negative and in the reverse order when it
\* is, the same for all rows; the effective step is the declared STEP, or the
\* difference of the first two index values when STEP equals NULL or zero
\* (read() then needs two samples).
C19_StepSignDecision ==
    pc = "loaded" =>
        /\ (FEq(DeclaredStep, DeclaredNull) \/ FEq(DeclaredStep, Num(0)))
            => TokenCount \div CurveCount >= 2
        /\ \A i \in 1..CurveCount :
            data[i] = IF FLt(StepUsed, Num(0)) THEN Reversed(DiskRow(i)) ELSE DiskRow(i)

\* two curves stored in descending order under a STEP of zero were reversed
C19_Witness ==
    /\ pc = "loaded"
    /\ FEq(DeclaredStep, Num(0))
    /\ FLt(StepUsed, Num(0))
    /\ CurveCount = 2
    /\ data[1] # DiskRow(1)
    /\ data[1] = Reversed(DiskRow(1))
    /\ data[2] = Reversed(DiskRow(2))

-----------------------------------------------------------------------------
\* Properties of the section titles.

\* the title lines of the output, in output order
OutTitles == SelectSeq(OutLines, IsTitleLine)

\* the title _headertostring knows for a section key
TitleOf(key) == IF call.sectionnames THEN headersectionnames[key] ELSE <<"~", key>>

IsOtherSection(entry) == entry.key # "A"
HasLines(entry) == entry.val.items # <<>> \/ entry.val.text # <<>>
IsWrittenSection(entry) == IsOtherSection(entry) /\ HasLines(entry)

\* the sections other than the data section, and those of them with lines
OtherSections == SelectSeq(header, IsOtherSection)
WrittenSections == SelectSeq(header, IsWrittenSection)

TitlesOf(sections) == [s \in 1..Len(sections) |-> TitleOf(sections[s].key)]

\* the number of lines a section's body has in the output
BodyLen(entry) ==
    IF entry.val.kind = "dict" THEN Len(entry.val.items)
    ELSE Len(SplitLines(entry.val.text))

\* the number of output lines of the first n of the sections, comments apart
RECURSIVE LinesOf(_, _)
LinesOf(sections, n) ==
    IF n = 0 THEN 0 ELSE LinesOf(sections, n - 1) + 1 + BodyLen(sections[n])

\* C20 as stated: the output has the title of every section other than the
\* data section, sections without lines included, in header order, and the
\* data section's title last.
C20_AllTitlesEmitted ==
    pc = "headerstring" => OutTitles = TitlesOf(OtherSections) \o <<TitleOf("A")>>

\* C20: the output has the title of every section that has lines, in header
\* order, each right before the lines of its body, and the data section's
\* title last; a section without lines is left out, title included.
C20_TitlesOfSectionsWithLines ==
    pc = "headerstring" =>
        /\ OutTitles = TitlesOf(WrittenSections) \o <<TitleOf("A")>>
        /\ ~call.comments =>
            /\ Len(OutLines) = LinesOf(WrittenSections, Len(WrittenSections)) + 1
            /\ \A s \in 1..Len(WrittenSections) :
                OutLines[LinesOf(WrittenSections, s - 1) + 1]
                    = TitleOf(WrittenSections[s].key)

\* a header with a section without lines before a section with lines was
\* written
C20_Witness ==
    /\ pc = "headerstring"
    /\ \E s, t \in 1..Len(header) :
        /\ s < t
        /\ IsOtherSection(header[s]) /\ ~HasLines(header[s])
        /\ IsWrittenSection(header[t])

-----------------------------------------------------------------------------
\* Properties of a header written with a layout that is not its own.

\* line key k of section s of the returned header has no vector in the layout
LacksVector(s, k) ==
    \/ returned[s].key \notin DOMAIN headerlayout
    \/ returned[s].val.items[k].key \notin DOMAIN headerlayout[returned[s].key]

\* MNEM + '.' + UNIT + ' ' + DATA + ':' + DESC
MinimalLine(l) == l.MNEM \o <<".">> \o l.UNIT \o <<" ">> \o l.DATA \o <<":">> \o l.DESC

\* C21: when the layout map passed to _headertostring has no vector for a
\* line of a structured section, the call succeeds and that line is in the
\* output in the minimal layout.
C21_MissingVectorDefaults ==
    \A s \in 1..Len(returned) :
        \A k \in 1..Len(returned[s].val.items) :
            (pc \in {"correctedstring", "correctedstringfailed"} /\ LacksVector(s, k))
                => /\ pc = "correctedstring"
                   /\ \E j \in 1..Len(OutLines) :
                        OutLines[j] = MinimalLine(returned[s].val.items[k].val)

-----------------------------------------------------------------------------
\* Properties of the pretty layout.

\* line k of the body of the s-th written section, in a text without comments
StyledLine(s, k) == OutLines[LinesOf(WrittenSections, s - 1) + 1 + k]

IsDictSection(s) == WrittenSections[s].val.kind = "dict"

\* the columns of the '.' separator, of the ':' separator and of the end
ColumnsOf(l) == <<IndexOf(l, "."), LastIndexOf(l, ":"), Len(l)>>

\* the sections whose lines are measured together with those of section s
SameScope(s, t) == IsDictSection(s) /\ IsDictSection(t) /\ (call.uniformsections \/ s = t)

\* the greatest of a non-empty set of numbers
Greatest(S) == CHOOSE x \in S : \A y \in S : y <= x

\* the length of the widest MNEM in the scope of section s
WidestMnem(s) ==
    Greatest({Len(WrittenSections[t].val.items[m].val.MNEM) :
                <<t, m>> \in {p \in (1..Len(WrittenSections)) \X (1..MaxHeaderLines) :
                                 /\ SameScope(s, p[1])
                                 /\ p[2] <= Len(WrittenSections[p[1]].val.items)}})

\* the vector the layout holds for line k of section s
VectorOf(s, k) ==
    headerlayout[WrittenSections[s].key][WrittenSections[s].val.items[k].key]

\* around a centered MNEM the slack is split floor(slack / 2) to the left
\* and ceil(slack / 2) to the right
CenterSplit(s, k) ==
    LET slack == WidestMnem(s) - Len(WrittenSections[s].val.items[k].val.MNEM)
    IN  /\ VectorOf(s, k)[1] = call.MNEM.leftmargin + slack \div 2
        /\ VectorOf(s, k)[2] = call.MNEM.rightmargin + (slack + 1) \div 2

AllAlligned == call.MNEM.allign # "" /\ call.DATA.allign # "" /\ call.DESC.allign # ""

\* C22: for every header, with MNEM, DATA and DESC each aligned left, center
\* or right, getprettyheaderlayout returns and composing the lines with its
\* vectors succeeds and puts the '.', the ':' and the end of line at the
\* same columns in all lines of a section (of all structured sections when
\* uniformsections), every vector entry is non-negative, and a centered
\* field's slack is split floor to the left, ceil to the right.
C22_PrettyColumnsAlign ==
    (pc \in {"styledfailed", "styledstring", "styledstringfailed"} /\ AllAlligned) =>
        /\ pc = "styledstring"
        /\ \A s, t \in 1..Len(WrittenSections) :
            SameScope(s, t) =>
                \A k \in 1..BodyLen(WrittenSections[s]), m \in 1..BodyLen(WrittenSections[t]) :
                    ColumnsOf(StyledLine(s, k)) = ColumnsOf(StyledLine(t, m))
        /\ \A s \in 1..Len(WrittenSections) :
            IsDictSection(s) =>
                \A k \in 1..BodyLen(WrittenSections[s]) :
                    /\ \A n \in 1..6 : VectorOf(s, k)[n] >= 0
                    /\ call.MNEM.allign = "center" => CenterSplit(s, k)

\* the lines <<section, line>> of the structured sections of the header
StructuredLines ==
    {p \in (1..Len(header)) \X (1..MaxHeaderLines) :
        /\ header[p[1]].val.kind = "dict"
        /\ p[2] <= Len(header[p[1]].val.items)}

\* the lines measured together with those of section s
ScopeOf(s) == {p \in StructuredLines : call.uniformsections \/ p[1] = s}

FieldsOf(p) == header[p[1]].val.items[p[2]].val

\* the width of what stands before DESC and is not padded by itself: UNIT
\* and DATA, and MNEM as well when MNEM has no alignment
Stacked(p) ==
    (IF call.MNEM.allign = "" THEN Len(FieldsOf(p).MNEM) ELSE 0)
        + Len(FieldsOf(p).UNIT) + Len(FieldsOf(p).DATA)

\* the stacking offset of a line: the widest combination of its scope minus
\* its own
StackingOffset(p) == Greatest({Stacked(q) : q \in ScopeOf(p[1])}) - Stacked(p)

\* the left padding of DESC that its own alignment asks for
DescOwnLeft(p) ==
    LET slack == Greatest({Len(FieldsOf(q).DESC) : q \in ScopeOf(p[1])})
                    - Len(FieldsOf(p).DESC)
    IN  call.DESC.leftmargin
            + (IF call.DESC.allign = "center" THEN slack \div 2
               ELSE IF call.DESC.allign = "right" THEN slack
               ELSE 0)

\* the line is the last of its section with its mnemonic, so that the vector
\* stored under the mnemonic is its own
OwnsVector(p) ==
    \A q \in StructuredLines :
        (q[1] = p[1] /\ q[2] > p[2]) => FieldsOf(q).MNEM # FieldsOf(p).MNEM

DescLeftOf(p) == headerlayout[header[p[1]].key][FieldsOf(p).MNEM][5]

\* C23 as stated: with an aligned DESC the left padding of DESC includes the
\* stacking offset unless DATA is aligned to the left.
C23_DescOffsetUnlessDataLeft ==
    (pc = "styled" /\ call.DESC.allign # "") =>
        \A p \in StructuredLines :
            OwnsVector(p) =>
                DescLeftOf(p) = DescOwnLeft(p)
                    + (IF call.DATA.allign = "left" THEN 0 ELSE StackingOffset(p))

\* C23: with an aligned DESC the left padding of DESC includes the stacking
\* offset exactly when DATA has no alignment at all; with DATA aligned to
\* the left, the center or the right the offset is left out.
C23_DescOffsetUnlessDataAlligned ==
    (pc = "styled" /\ call.DESC.allign # "") =>
        \A p \in StructuredLines :
            OwnsVector(p) =>
                DescLeftOf(p) = DescOwnLeft(p)
                    + (IF call.DATA.allign # "" THEN 0 ELSE StackingOffset(p))

\* a layout for a centered DATA and an aligned DESC in which a line with a
\* stacking offset has a DESC padding without it
C23_Witness ==
    /\ pc = "styled"
    /\ call.DESC.allign # ""
    /\ call.DATA.allign = "center"
    /\ \E p \in StructuredLines :
        /\ OwnsVector(p)
        /\ StackingOffset(p) > 0
        /\ DescLeftOf(p) = DescOwnLeft(p)

-----------------------------------------------------------------------------
\* Properties of the encoded data.

\* the lines of the encoded data and the values they hold
DataOutLines == SplitLines(datastring)
ValuesOn(l) == SplitWhitespace(l)

\* most values of a wrapped line, and the number of lines the values after
\* the index value need
PerLine == 80 \div call.collumnwidth
RestLines == (Len(data) - 1 + PerLine - 1) \div PerLine

\* line m of sample j of the wrapped text, were each sample on 1 + RestLines
\* lines
WrappedLine(j, m) == DataOutLines[(j - 1) * (1 + RestLines) + m]

\* C24: with wrap every sample is an index line followed by exactly
\* ceil((c - 1) / k) lines of at least one and at most k values, no line is
\* empty, and the values are those of the text without wrap, in that order.
C24_WrappedLayout ==
    (pc = "datastring" /\ call.wrap) =>
        /\ Len(DataOutLines) = Len(data[1]) * (1 + RestLines)
        /\ \A j \in 1..Len(DataOutLines) : DataOutLines[j] # <<>>
        /\ \A j \in 1..Len(data[1]) :
            /\ Len(ValuesOn(WrappedLine(j, 1))) = 1
            /\ \A m \in 2..(1 + RestLines) :
                /\ Len(ValuesOn(WrappedLine(j, m))) >= 1
                /\ Len(ValuesOn(WrappedLine(j, m))) <= PerLine
        /\ ValuesOn(datastring)
            = ValuesOn(DataToString(data, call.nullvalue, call.revertorder, FALSE,
                                    call.allign, call.collumnwidth))

-----------------------------------------------------------------------------
\* Properties of read() followed by write() when the step is inferred.

\* the text t without its spaces
Unspaced(t) == SelectSeq(t, LAMBDA ch : ch # " ")

\* the lines of section W of the source file, the title apart
SrcWellLines == {l \in {file[i] : i \in 1..Len(file)} :
                    StartsWith(l, STEPKey) \/ StartsWith(l, NULLKey)}

\* the index column of the written text, NULL read as missing
OutIndex ==
    [k \in 1..NSamples |->
        IF FEq(OutValue(1, k), DeclaredNull) THEN NaN ELSE OutValue(1, k)]

\* C25: when STEP is zero or NULL and the samples are stored in descending
\* index order, read() then write() emits the samples in the reverse of the
\* source order, the index ascending, and writes the lines of section W with
\* the fields they had in the source.
C25_InferredOrderNotRestored ==
    (pc = "written" /\ StepInferred /\ FLt(EffectiveStep, Num(0))
        /\ NonIncreasing(SrcIndex))
        => /\ Len(OutTokens) = Len(SrcTokens)
           /\ \A i \in 1..NCurves, k \in 1..NSamples :
                FEq(OutValue(i, NSamples + 1 - k), SrcValue(i, k))
           /\ NonDecreasing(OutIndex)
           /\ header = GetHeader(headerlines).header
           /\ \A l \in SrcWellLines :
                \E j \in 1..Len(OutLines) : Unspaced(OutLines[j]) = Unspaced(l)

\* two curves stored at 3, 2, 1 under a STEP of zero were written at 1, 2, 3
C25_Witness ==
    /\ pc = "written"
    /\ FEq(DeclaredStep, Num(0))
    /\ NCurves = 2 /\ NSamples = 3
    /\ SrcIndex = <<Num(3), Num(2), Num(1)>>
    /\ OutIndex = <<Num(1), Num(2), Num(3)>>

-----------------------------------------------------------------------------
\* the position in the written header of the title of the C section, and the
\* number of lines between it and the next title
CurveTitleAt == CHOOSE j \in 1..Len(OutLines) : OutLines[j] = headersectionnames["C"]

WrittenCurveLines ==
    Cardinality({j \in (CurveTitleAt + 1)..Len(OutLines) :
                    \A k \in (CurveTitleAt + 1)..j : ~IsTitleLine(OutLines[k])})

\* the values of the first line of the written data
WrittenRows == Len(ValuesOn(DataOutLines[1]))

\* C26: after read(), correctcurvesection with the loaded names and one more,
\* one more row of data and write(), the written C section has as many lines
\* as the written data matrix has rows.
C26_ExportKeepsCurveCount ==
    (pc = "written" /\ ~StartsWithY(ODGet(ODGet(header, "V").items, WRAPKey).DATA))
        => /\ WrittenRows = Len(data)
           /\ WrittenCurveLines = Len(data)

-----------------------------------------------------------------------------
\* the positions in headerlines of the title lines, of those of a key, and of
\* the first title of every key
TitlePositions == {j \in 1..Len(headerlines) : IsTitleLine(headerlines[j])}
TitlesOfKey(key) == {j \in TitlePositions : TitleKey(headerlines[j]) = key}
FirstTitles ==
    {j \in TitlePositions :
        \A k \in TitlePositions : k < j => TitleKey(headerlines[k]) # TitleKey(headerlines[j])}

\* the s-th of the first titles, in file order
FirstTitle(s) == CHOOSE j \in FirstTitles : Cardinality({k \in FirstTitles : k < j}) = s - 1

\* the section holds the given ordinary lines and no other: parsed in order,
\* or as their raw text
HoldsLines(section, body) ==
    IF section.kind = "dict"
    THEN /\ Len(section.items) = Len(body)
         /\ \A i \in 1..Len(body) :
              section.items[i].val = ParseLine(body[i], TRUE).parsedline
    ELSE section.text = JoinLines(body)

\* the key has more than one title line
Repeated(key) == Cardinality(TitlesOfKey(key)) > 1

\* C27: when a section key has several title lines, _getheader keeps one
\* section under it, at the position of the first of them in the section
\* order, with the title and the ordinary lines of the last of them; the
\* ordinary lines after the earlier titles are in no section.
C27_RepeatedKeyKeepsLast ==
    pc = "header" =>
        /\ Len(header) = Cardinality(FirstTitles)
        /\ \A s \in 1..Len(header) :
            /\ header[s].key = TitleKey(headerlines[FirstTitle(s)])
            /\ HoldsLines(header[s].val, SectionBody(header[s].key))
            /\ Repeated(header[s].key) =>
                headersectionnames[header[s].key]
                    = FirstLine(headerlines[LastTitle(header[s].key)])

\* '~V' with a line, another section, then '~v' without a line: the section
\* V is first, is titled '~v' and holds no line
C27_Witness ==
    /\ pc = "header"
    /\ Len(header) = 3
    /\ \E i, j \in TitlesOfKey(header[1].key) :
        /\ i + 1 < j
        /\ IsOrdinaryLine(headerlines[i + 1])
        /\ FirstLine(headerlines[i]) # FirstLine(headerlines[j])
        /\ j = LastTitle(header[1].key)
        /\ j > FirstTitle(2)
        /\ headersectionnames[header[1].key] = FirstLine(headerlines[j])
        /\ header[1].val = StrSection(<<>>)

-----------------------------------------------------------------------------
\* C28: in the text _datatostring produces with the default column width the
\* values stay separate tokens: splitting the text on whitespace gives one
\* token per curve and sample, whatever the length of a formatted value.
C28_ValuesStaySeparate ==
    (pc = "datastring" /\ call.collumnwidth = DefaultColumnWidth)
        => Len(SplitWhitespace(datastring)) = Len(data) * Len(data[1])

-----------------------------------------------------------------------------
\* the image has an element that is not of the gap colour
HasColor(image_1d, gapcolor) == \E i \in 1..Len(image_1d) : image_1d[i] # gapcolor

\* positions b < e of two elements that are not gaps, with gaps only between
Encloses(image_1d, gapcolor, b, e) ==
    /\ b + 1 < e
    /\ image_1d[b] # gapcolor
    /\ image_1d[e] # gapcolor
    /\ \A i \in (b + 1)..(e - 1) : image_1d[i] = gapcolor

\* position i is in a run of gaps enclosed by two elements of one colour
Enclosed(image_1d, gapcolor, i) ==
    \E b \in 1..(i - 1), e \in (i + 1)..Len(image_1d) :
        Encloses(image_1d, gapcolor, b, e) /\ image_1d[b] = image_1d[e]

\* the colour before the run of gaps position i is in
ColorBefore(image_1d, gapcolor, i) ==
    image_1d[CHOOSE b \in 1..(i - 1) :
                image_1d[b] # gapcolor /\ \A k \in (b + 1)..i : image_1d[k] = gapcolor]

\* C29: for an image with an element that is no gap, fillgaps returns an
\* image of the same length in which every run of gaps enclosed by two
\* elements of one colour has that colour and every other element is the
\* input's; the input is not modified.
C29_FillGapsResult ==
    (pc = "filled" /\ HasColor(call.image_1d, call.gapcolor)) =>
        /\ data = call.image_1d
        /\ Len(returned) = Len(data)
        /\ \A i \in 1..Len(data) :
            returned[i] = IF Enclosed(data, call.gapcolor, i)
                          THEN ColorBefore(data, call.gapcolor, i)
                          ELSE data[i]

\* an image that starts and ends with a gap and has an enclosed run that was
\* filled
C29_Witness ==
    /\ pc = "filled"
    /\ HasColor(data, call.gapcolor)
    /\ data[1] = call.gapcolor
    /\ data[Len(data)] = call.gapcolor
    /\ returned # data

\* the Python indices of the elements of triple k
Interval(k) == returned.tops[k]..returned.bottoms[k]

\* C30: for an image that is not empty, compress returns one triple (colour,
\* top, bottom) per maximal run of one colour that is no gap and none for the
\* runs of gaps, in index order: top <= bottom, every bottom below the next
\* top, every element from top to bottom of the triple's colour, and the
\* intervals together are the indices of the elements that are no gaps.
C30_CompressResult ==
    pc = "compressed" =>
        /\ Len(returned.tops) = Len(returned.colors)
        /\ Len(returned.bottoms) = Len(returned.colors)
        /\ \A k \in 1..Len(returned.colors) :
            /\ returned.colors[k] # call.gapcolor
            /\ 0 <= returned.tops[k]
            /\ returned.tops[k] <= returned.bottoms[k]
            /\ returned.bottoms[k] < Len(call.image_1d)
            /\ k < Len(returned.colors) => returned.bottoms[k] < returned.tops[k + 1]
            /\ \A i \in Interval(k) : call.image_1d[i + 1] = returned.colors[k]
            /\ returned.tops[k] > 0 =>
                call.image_1d[returned.tops[k]] # returned.colors[k]
            /\ returned.bottoms[k] < Len(call.image_1d) - 1 =>
                call.image_1d[returned.bottoms[k] + 2] # returned.colors[k]
        /\ UNION {Interval(k) : k \in 1..Len(returned.colors)}
            = {i \in 0..(Len(call.image_1d) - 1) : call.image_1d[i + 1] # call.gapcolor}

\* an image with a gap and with two runs of different colours side by side
C30_Witness ==
    /\ pc = "compressed"
    /\ \E i \in 1..Len(call.image_1d) : call.image_1d[i] = call.gapcolor
    /\ \E k \in 1..(Len(returned.colors) - 1) :
        /\ returned.bottoms[k] + 1 = returned.tops[k + 1]
        /\ returned.tops[k] < returned.bottoms[k]

====
